---------------------------- MODULE Spec2Model ----------------------------
(***************************************************************************)
(* Requirement / test-case matching core of SpecTacularAI12:               *)
(*   src/semantic_search.py   the lexical index (build_index, search,      *)
(*                            get_similarity_scores)                       *)
(*   src/mapping_engine.py    MappingEngine (extract_requirements,         *)
(*                            map_test_cases_to_requirements)              *)
(* Texts are TLA+ strings handled character by character (Len, SubSeq,     *)
(* \o), so tokenisation, pattern matching, stripping and truncation are    *)
(* computed as the Python code computes them on ASCII text.                *)
(* Floats that the code obtains as len(a)/len(b) are exact fractions       *)
(* <<numerator, denominator>> in lowest terms.                             *)
(***************************************************************************)
EXTENDS Integers, Sequences, FiniteSets, TLC

VARIABLES
    chunks,     \* semantic_search.chunks: the module-level index
    built,      \* history: some build_index call with a non-empty list has succeeded
    srs_requirements,   \* app.srs_requirements: the list extract_requirements returned
    ret,        \* the last call: its name, arguments, and result or raised error
    test_cases,     \* app.test_cases: the list the handlers share
    matrix_data     \* TraceabilityMatrix.matrix_data: the cached matrix

vars == <<chunks, built, srs_requirements, ret, test_cases, matrix_data>>

-----------------------------------------------------------------------------
(* Characters and strings                                                  *)

LowerLetters ==
    {"a","b","c","d","e","f","g","h","i","j","k","l","m",
     "n","o","p","q","r","s","t","u","v","w","x","y","z"}

UpperLetters ==
    {"A","B","C","D","E","F","G","H","I","J","K","L","M",
     "N","O","P","Q","R","S","T","U","V","W","X","Y","Z"}

Digits == {"0","1","2","3","4","5","6","7","8","9"}

\* str.lower() on one character.
LowerOf ==
    [c \in UpperLetters |->
        CASE c = "A" -> "a" [] c = "B" -> "b" [] c = "C" -> "c" [] c = "D" -> "d"
          [] c = "E" -> "e" [] c = "F" -> "f" [] c = "G" -> "g" [] c = "H" -> "h"
          [] c = "I" -> "i" [] c = "J" -> "j" [] c = "K" -> "k" [] c = "L" -> "l"
          [] c = "M" -> "m" [] c = "N" -> "n" [] c = "O" -> "o" [] c = "P" -> "p"
          [] c = "Q" -> "q" [] c = "R" -> "r" [] c = "S" -> "s" [] c = "T" -> "t"
          [] c = "U" -> "u" [] c = "V" -> "v" [] c = "W" -> "w" [] c = "X" -> "x"
          [] c = "Y" -> "y" [] c = "Z" -> "z"]

Char(s, i) == SubSeq(s, i, i)

\* Body(value) with the value computed once: a local variable of the code
Bind(value, Body(_)) == CHOOSE r \in {Body(v) : v \in {value}} : TRUE

\* the least and the greatest element of a non-empty set of integers
SetMin(S) == CHOOSE x \in S : \A y \in S : x <= y
SetMax(S) == CHOOSE x \in S : \A y \in S : y <= x

LowerChar(c) == IF c \in UpperLetters THEN LowerOf[c] ELSE c

\* str.lower(): character by character (by halves, to keep the recursion
\* shallow on long texts)
RECURSIVE lower(_)
lower(s) ==
    IF Len(s) <= 1 THEN LowerChar(s)
    ELSE LET half == Len(s) \div 2
         IN  lower(SubSeq(s, 1, half)) \o lower(SubSeq(s, half + 1, Len(s)))

\* the regular-expression class \w on ASCII text
IsWordChar(c) == c \in LowerLetters \cup UpperLetters \cup Digits \cup {"_"}

\* the regular-expression class \s, and the characters str.strip() removes
IsSpace(c) == c \in {" ", "\t", "\n", "\r"}

\* s[a:b] of Python for 0 <= a, with b clipped to len(s) (0-based, b exclusive)
Slice(s, a, b) == SubSeq(s, a + 1, IF b < Len(s) THEN b ELSE Len(s))

\* s.startswith(k, p) for a 0-based offset p
StartsAt(s, p, k) == p + Len(k) <= Len(s) /\ SubSeq(s, p + 1, p + Len(k)) = k

\* k in s
Contains(s, k) == \E p \in 0..Len(s) : StartsAt(s, p, k)

\* str.strip()
strip(s) ==
    Bind({i \in 1..Len(s) : ~IsSpace(Char(s, i))}, LAMBDA keep :
        IF keep = {} THEN "" ELSE SubSeq(s, SetMin(keep), SetMax(keep)))

\* separator.join(parts)
RECURSIVE join(_, _)
join(separator, parts) ==
    IF parts = <<>> THEN ""
    ELSE IF Len(parts) = 1 THEN parts[1]
    ELSE parts[1] \o separator \o join(separator, Tail(parts))

\* set(re.findall(r'\b\w+\b', text.lower())): the lower-cased maximal runs of
\* word characters.
findall_words(text) ==
    LET n == Len(text)
        starts == {i \in 1..n : /\ IsWordChar(Char(text, i))
                                /\ (i = 1 \/ ~IsWordChar(Char(text, i - 1)))}
        endOf(i) == CHOOSE j \in i..n :
                        /\ \A m \in i..j : IsWordChar(Char(text, m))
                        /\ (j = n \/ ~IsWordChar(Char(text, j + 1)))
    IN  {lower(SubSeq(text, i, endOf(i))) : i \in starts}

-----------------------------------------------------------------------------
(* Inputs: bounds, and the pools the calls draw their arguments from       *)

MaxChunks == 2      \* longest chunk sequence handed to build_index
MaxK == 3           \* largest top_k

IndexChunkPool == {"login page", "Login page.", "Login", "----------"}

QueryPool == {"", "?!", "login", "LOGIN page", "reports"}

MaxDocChunks == 2   \* longest chunk sequence handed to extract_requirements

\* Document chunks: the two of Scenario A; two that carry the same number with
\* different text; one made of words of the login and the lock chunk; one
\* without any requirement marker; a user story that also
\* mentions numbered items; three with several markers, or delimiter runs that
\* defeat the sentence lookup; one below the minimum chunk length; one whose
\* numbered items are wishes.
ScenarioLogin == "The system shall allow user login with valid credentials."
ScenarioPassword == "The system shall validate password length of at least 8 characters."
ChunkLock == "FR-1 The system shall lock the account after three failed attempts."
ChunkReport == "FR-1 The report page must list every open ticket for the team."
ChunkLockout == "The system shall lock the user account after failed login attempts."
ChunkWishes == "FR-3 Offline export is nice to have. Nobody asked for it yet. FR-4 The audit trail should list changes that may matter."

DocChunkPool ==
    {ScenarioLogin,
     ScenarioPassword,
     ChunkLock,
     ChunkReport,
     ChunkLockout,
     ChunkWishes,
     "Operators review the nightly backup logs and archive them on the remote server. They sign off.",
     "As a user I want to reset my password so that I can sign in again. See NFR-2 and story 7!",
     "The system must encrypt stored passwords. Security-4 covers the quality 2 audit trail.",
     "Requirement 5 the user interface could display optional hints. User story 6 may follow later.",
     "Really?!?!?!?!?!?!?!?!?!?!?!?!?!?!?!?!?!?!?!?! Requirement 9 is unclear",
     "Short note about login."}

RECURSIVE SeqsUpTo(_, _)
SeqsUpTo(S, n) ==
    IF n = 0 THEN {<<>>}
    ELSE LET shorter == SeqsUpTo(S, n - 1)
         IN  shorter \cup {Append(s, x) : s \in shorter, x \in S}

IndexChunkSeqs == SeqsUpTo(IndexChunkPool, MaxChunks)

DocChunkSeqs == SeqsUpTo(DocChunkPool, MaxDocChunks)

\* The chunk sequences of the mapping specification, for the index and for
\* the extraction alike: Scenario A, three chunks, four chunks, two chunks
\* that give one id twice, and a single chunk.
MapChunkSeqs ==
    { <<ScenarioLogin, ScenarioPassword>>,
      <<ScenarioPassword, ScenarioLogin, ChunkLock>>,
      <<ScenarioPassword, ScenarioLogin, ChunkLock, ChunkLockout>>,
      <<ChunkLock, ChunkReport>>,
      <<ScenarioPassword>> }

\* The value of a test-case field: a string, a list of strings, an integer,
\* None, or no such key.
Str(v) == [kind |-> "str", str |-> v, list |-> <<>>, int |-> 0]
List(v) == [kind |-> "list", str |-> "", list |-> v, int |-> 0]
Number(v) == [kind |-> "int", str |-> "", list |-> <<>>, int |-> v]
None == [kind |-> "none", str |-> "", list |-> <<>>, int |-> 0]
Missing == [kind |-> "missing", str |-> "", list |-> <<>>, int |-> 0]

\* An entry of a test-case list: a dict with these keys, or something else.
TestCase(id, title, description, steps, query, requirement_id) ==
    [dict |-> TRUE, id |-> id, title |-> title, description |-> description,
     steps |-> steps, query |-> query, requirement_id |-> requirement_id]

NotADict ==
    [dict |-> FALSE, id |-> Missing, title |-> Missing, description |-> Missing,
     steps |-> Missing, query |-> Missing, requirement_id |-> Missing]

-----------------------------------------------------------------------------
(* app.py: the test cases that /query generates                            *)

TopK == 3               \* search(query_text, top_k=3)
TitleLength == 50       \* query_text[:50]

\* The if / elif chain of _generate_test_steps on the lower-cased query, in
\* order: the keywords of a branch and the steps it gives.
StepRules ==
    << [keywords |-> {"registration", "register", "signup", "sign up", "create account"},
        steps |-> <<"1. Navigate to user registration page",
                    "2. Enter valid user information (name, email, password)",
                    "3. Click Register button",
                    "4. Check for registration success message",
                    "5. Check email inbox for verification email",
                    "6. Click verification link in email",
                    "7. Verify account activation">>],
       [keywords |-> {"login", "sign in", "authentication", "signin"},
        steps |-> <<"1. Navigate to login page",
                    "2. Enter valid username/email",
                    "3. Enter correct password",
                    "4. Click login button",
                    "5. Verify redirect to dashboard or homepage",
                    "6. Check for user session establishment">>],
       [keywords |-> {"password reset", "forgot password", "reset password"},
        steps |-> <<"1. Navigate to login page",
                    "2. Click 'Forgot Password' link",
                    "3. Enter registered email address",
                    "4. Submit password reset request",
                    "5. Check email for reset link",
                    "6. Click reset link within 24 hours",
                    "7. Enter new password",
                    "8. Confirm password change",
                    "9. Login with new password">>],
       [keywords |-> {"cart", "shopping cart", "add to cart"},
        steps |-> <<"1. Browse product catalog",
                    "2. Select desired product",
                    "3. Choose quantity and options",
                    "4. Click 'Add to Cart' button",
                    "5. Verify item appears in cart",
                    "6. Check quantity and price accuracy",
                    "7. Test cart persistence across sessions">>],
       [keywords |-> {"checkout", "payment", "purchase", "buy"},
        steps |-> <<"1. Add products to shopping cart",
                    "2. Proceed to checkout",
                    "3. Enter shipping information",
                    "4. Select shipping method",
                    "5. Choose payment method",
                    "6. Enter payment details",
                    "7. Review order summary",
                    "8. Complete purchase",
                    "9. Verify order confirmation">>],
       [keywords |-> {"search", "find", "filter"},
        steps |-> <<"1. Navigate to search interface",
                    "2. Enter search keywords",
                    "3. Apply relevant filters",
                    "4. Execute search",
                    "5. Review search results",
                    "6. Verify result relevance",
                    "7. Test result sorting options">>],
       [keywords |-> {"product", "inventory", "catalog"},
        steps |-> <<"1. Login as merchant/admin",
                    "2. Navigate to product management",
                    "3. Click 'Add New Product'",
                    "4. Fill in product details",
                    "5. Upload product images",
                    "6. Set pricing and inventory",
                    "7. Publish product",
                    "8. Verify product appears in catalog">>],
       [keywords |-> {"order", "tracking", "fulfillment"},
        steps |-> <<"1. Access order management system",
                    "2. Locate specific order",
                    "3. Update order status",
                    "4. Add tracking information",
                    "5. Send customer notification",
                    "6. Verify status update",
                    "7. Check customer notification delivery">>],
       [keywords |-> {"validate", "validation", "verify", "test"},
        steps |-> <<"1. Prepare test data and environment",
                    "2. Execute validation process",
                    "3. Input valid test data",
                    "4. Verify successful validation",
                    "5. Input invalid test data",
                    "6. Verify error handling",
                    "7. Check error messages for clarity">>],
       [keywords |-> {"security", "access", "permission", "role"},
        steps |-> <<"1. Login with test user account",
                    "2. Attempt to access restricted feature",
                    "3. Verify access control enforcement",
                    "4. Test with different user roles",
                    "5. Verify appropriate permissions",
                    "6. Check error messages for unauthorized access">>],
       [keywords |-> {"performance", "load", "speed", "response time"},
        steps |-> <<"1. Set up performance monitoring",
                    "2. Execute performance test scenario",
                    "3. Measure response times",
                    "4. Monitor system resources",
                    "5. Verify performance meets requirements",
                    "6. Document performance metrics">>],
       [keywords |-> {"mobile", "responsive", "device"},
        steps |-> <<"1. Access application on mobile device",
                    "2. Test touch interface functionality",
                    "3. Verify responsive design",
                    "4. Test navigation on small screen",
                    "5. Verify mobile-specific features",
                    "6. Check performance on mobile network">>] >>

\* any(keyword in text for keyword in keywords)
any_in(text, keywords) == \E keyword \in keywords : Contains(text, keyword)

\* The else branch of _generate_test_steps: steps chosen by the lower-cased
\* chunk, each later one numbered len(steps) + 1.
numbered(steps, text) == Append(steps, ToString(Len(steps) + 1) \o ". " \o text)

generic_steps(chunk_lower) ==
    Bind(IF any_in(chunk_lower, {"user", "customer", "account"})
         THEN <<"1. Login as test user", "2. Navigate to relevant feature">>
         ELSE IF any_in(chunk_lower, {"admin", "management", "configure"})
         THEN <<"1. Login as administrator", "2. Access management interface">>
         ELSE <<"1. Navigate to feature under test">>,
         LAMBDA opening :
    Bind(IF any_in(chunk_lower, {"input", "enter", "data"})
         THEN numbered(opening, "Enter required test data") ELSE opening,
         LAMBDA entered :
    Bind(IF any_in(chunk_lower, {"click", "submit", "save"})
         THEN numbered(entered, "Execute primary action") ELSE entered,
         LAMBDA executed :
            IF any_in(chunk_lower, {"verify", "check", "validate"})
            THEN numbered(executed, "Verify expected results")
            ELSE numbered(executed, "Confirm successful operation"))))

\* _generate_test_steps(chunk, query); the steps are never empty.
_generate_test_steps(chunk, query) ==
    Bind({k \in 1..Len(StepRules) : any_in(lower(query), StepRules[k].keywords)},
         LAMBDA branches :
            join("\n", IF branches # {} THEN StepRules[SetMin(branches)].steps
                       ELSE generic_steps(lower(chunk))))

\* The patterns of _extract_requirement_id, in order: the letters, matched
\* without regard to case, and whether [_-]? follows them; \d+ ends each.
IdPatterns ==
    << [letters |-> "req", separator |-> TRUE],
       [letters |-> "r", separator |-> FALSE],
       [letters |-> "fr", separator |-> TRUE],
       [letters |-> "nfr", separator |-> TRUE] >>

\* Where the digits of a pattern begin when its letters match the chunk at
\* the 0-based offset p, or -1 when the pattern does not match there.
DigitsStart(chunk, p, pattern) ==
    Bind(p + Len(pattern.letters), LAMBDA q :
        IF ~StartsAt(lower(chunk), p, pattern.letters) THEN -1
        ELSE IF q < Len(chunk) /\ Char(chunk, q + 1) \in Digits THEN q
        ELSE IF /\ pattern.separator
                /\ q + 1 < Len(chunk)
                /\ Char(chunk, q + 1) \in {"_", "-"}
                /\ Char(chunk, q + 2) \in Digits THEN q + 1
        ELSE -1)

\* re.search(pattern, chunk, re.IGNORECASE).group(): the leftmost match with
\* all the digits that follow, or "" when there is no match.
search_group(chunk, pattern) ==
    Bind({p \in 0..Len(chunk) : DigitsStart(chunk, p, pattern) >= 0}, LAMBDA found :
        IF found = {} THEN ""
        ELSE Slice(chunk, SetMin(found),
                   SetMin({e \in DigitsStart(chunk, SetMin(found), pattern)..Len(chunk) :
                              e = Len(chunk) \/ Char(chunk, e + 1) \notin Digits})))

\* _extract_requirement_id(chunk): the match of the first pattern that has
\* one, or None.
_extract_requirement_id(chunk) ==
    Bind({k \in 1..Len(IdPatterns) : search_group(chunk, IdPatterns[k]) # ""},
         LAMBDA matching :
            IF matching = {} THEN None
            ELSE Str(search_group(chunk, IdPatterns[SetMin(matching)])))

\* The inputs of the handlers of app.py: the chunk sequences of uploaded
\* documents, the query texts, and the wall-clock seconds of the queries.
AppChunkSeqs == { <<>>, <<ScenarioLogin>>, <<ChunkLock, ChunkReport>> }

AppQueryPool == {" ", " login"}

TimePool == {"20240101_120000", "20240101_120001"}

\* The chunks /query can retrieve, and the stripped queries it answers
AppChunks == UNION {{cs[c] : c \in 1..Len(cs)} : cs \in AppChunkSeqs}

AppQueryTexts == {strip(query) : query \in AppQueryPool} \ {""}

\* _generate_test_steps and _extract_requirement_id, tabulated once for
\* the chunks and queries of the requests
StepsTable ==
    [chunk \in AppChunks |->
        [query_text \in AppQueryTexts |-> _generate_test_steps(chunk, query_text)]]

RequirementIdTable == [chunk \in AppChunks |-> _extract_requirement_id(chunk)]

\* The i-th test case /query generates (i from 1) for a retrieved chunk, at
\* the wall-clock second now; the keys 'expected' and 'chunk_source' are left
\* out, 'priority', 'type' and 'status' have the values generate_matrix
\* takes as defaults.
generated_test_case(query_text, chunk, now, i) ==
    TestCase(Str("TC_" \o now \o "_" \o ToString(i)),
             Str("Test Case for: " \o Slice(query_text, 0, TitleLength) \o "..."),
             Str("Generated test case based on query: " \o query_text),
             Str(StepsTable[chunk][query_text]),
             Str(query_text),
             RequirementIdTable[chunk])

-----------------------------------------------------------------------------
(* Inputs: the test cases                                                  *)

\* The test case of Scenario B.
ScenarioB ==
    TestCase(Missing, Str("Verify login success"), Str("tests login"),
             Str("1. Enter valid credentials\n2. Click login"), Str("login"), Missing)

\* The login chunk word for word, linked to the id of its requirement.
LinkedLogin ==
    TestCase(Str("TC_1"), Str(ScenarioLogin), None, Missing, Str(""),
             Str("FUNCTIONAL_0_0"))

\* Part of the lock chunk, linked to an id the extraction gives twice.
LinkedLock ==
    TestCase(Str("TC_4"), Str("lock the account"), Str("after three failed attempts"),
             Str("FR-1"), Missing, Str("FUNCTIONAL_1"))

\* The two chunks that share an id, under a number as id and a list as
\* requirement_id.
ListLinked ==
    TestCase(Number(6), Str(ChunkLock), Str(ChunkReport), Missing, Missing,
             List(<<"FUNCTIONAL_1">>))

\* The login chunk in a title, every other field a string or absent.
PlainLogin ==
    TestCase(Str("TC_7"), Str(ScenarioLogin), Str(""), Missing, Missing, Missing)

MaxTestCases == 1   \* longest test-case list handed to the mapper

\* Scenario B; the login chunk word for word, linked to its requirement; the
\* password chunk as a list of steps; three chunks together; part of the lock
\* chunk, linked to an id the extraction gives twice; an entry with no text;
\* the two chunks that share an id; the login chunk in string fields only; an
\* entry that is not a dict.
TestCasePool ==
    { ScenarioB,
      LinkedLogin,
      TestCase(Str("TC_2"), None, Number(0),
               List(<<"The system shall validate", "password length of at least 8 characters">>),
               Missing, None),
      TestCase(Str("TC_3"), Str(ScenarioLogin), Str(ScenarioPassword),
               List(<<ChunkLock>>), Number(8), Str("FUNCTIONAL_1")),
      LinkedLock,
      TestCase(Str("TC_5"), Str(" "), None, List(<<>>), Number(0), Missing),
      ListLinked,
      PlainLogin,
      NotADict }

\* Scenario D: a test-case list with one entry that is not a dict, between
\* two that are.
ScenarioD == <<LinkedLogin, NotADict, PlainLogin>>

TestCaseSeqs == SeqsUpTo(TestCasePool, MaxTestCases) \cup {ScenarioD}

\* every test case /query can generate from these inputs
GeneratedTestCases ==
    { generated_test_case(query_text, chunk, now, i) :
          query_text \in AppQueryTexts, chunk \in AppChunks,
          now \in TimePool, i \in 1..TopK }

\* The part of the composite text a field of the test case gives
\* (_find_matching_requirements): a string as it is, a list joined with
\* spaces, any other value as str(value) when it is truthy, otherwise ''.
field_text(value) ==
    CASE value.kind = "str" -> value.str
      [] value.kind = "list" -> join(" ", value.list)
      [] value.kind = "int" -> IF value.int # 0 THEN ToString(value.int) ELSE ""
      [] OTHER -> ""

\* " ".join(test_content_parts).strip() over title, description, steps, query
test_content(test_case) ==
    strip(join(" ", <<field_text(test_case.title), field_text(test_case.description),
                      field_text(test_case.steps), field_text(test_case.query)>>))

\* test_content, tabulated once for the test cases the calls draw
TestContentTable == [tc \in TestCasePool \cup GeneratedTestCases |-> test_content(tc)]

content_of(test_case) == TestContentTable[test_case]

\* The texts whose word sets are tabulated once.
KnownTexts ==
    IndexChunkPool \cup QueryPool \cup DocChunkPool
        \cup {TestContentTable[tc] : tc \in DOMAIN TestContentTable}
        \cup {strip(query) : query \in AppQueryPool}

WordTable == [t \in KnownTexts |-> findall_words(t)]

\* findall_words, read from the table for the tabulated texts
words(text) == IF text \in KnownTexts THEN WordTable[text] ELSE findall_words(text)

-----------------------------------------------------------------------------
(* Fractions: the floats of the code                                       *)

RECURSIVE GCD(_, _)
GCD(a, b) == IF b = 0 THEN a ELSE GCD(b, a % b)

\* n / d as a float, d > 0
Frac(n, d) == LET g == GCD(n, d) IN <<n \div g, d \div g>>

Zero == Frac(0, 1)
One == Frac(1, 1)

FracLess(x, y) == x[1] * y[2] < y[1] * x[2]
FracLeq(x, y) == x[1] * y[2] <= y[1] * x[2]

FracAdd(x, y) == Frac(x[1] * y[2] + y[1] * x[2], x[2] * y[2])
FracMul(x, y) == Frac(x[1] * y[1], x[2] * y[2])
FracMin(x, y) == IF FracLeq(x, y) THEN x ELSE y

\* round(x, 3): to the nearest thousandth, an exact tie to the even one.  (On
\* a tie that a float does not hold exactly, Python rounds the float's nearest
\* neighbour; the last digit can then differ.)
round3(x) ==
    Bind((x[1] * 1000) \div x[2], LAMBDA q :
    Bind((x[1] * 1000) % x[2], LAMBDA r :
        Frac(IF 2 * r < x[2] THEN q
             ELSE IF 2 * r > x[2] THEN q + 1
             ELSE IF q % 2 = 0 THEN q ELSE q + 1,
             1000)))

-----------------------------------------------------------------------------
(* semantic_search.py                                                      *)

\* A mutation of JaccardSimilarity: the overlap is divided by the size of the
\* query's word set instead of the union's.
JaccardOverQuery(query_words, chunk_words) ==
    IF query_words # {}
    THEN Frac(Cardinality(query_words \cap chunk_words), Cardinality(query_words))
    ELSE Zero

\* len(intersection) / len(union) if union else 0.0
JaccardSimilarity(query_words, chunk_words) ==
    LET intersection == query_words \cap chunk_words
        union == query_words \cup chunk_words
    IN  IF union # {}
        THEN Frac(Cardinality(intersection), Cardinality(union))
        ELSE Zero

\* A mutation of sort_by_similarity: ascending sort followed by a reversal,
\* which reverses the order of equal keys.
RECURSIVE sort_then_reverse(_)
sort_then_reverse(results) ==
    IF results = <<>> THEN <<>>
    ELSE LET sorted == sort_then_reverse(Tail(results))
             e == Head(results)
             p == Cardinality({i \in 1..Len(sorted) :
                                  FracLeq(e.similarity, sorted[i].similarity)})
         IN  SubSeq(sorted, 1, p) \o <<e>> \o SubSeq(sorted, p + 1, Len(sorted))

\* list.sort(key=similarity, reverse=True): descending and stable, so records
\* of equal similarity keep their order.  Insertion from the right: a record
\* goes before every record of the sorted tail whose similarity is not greater.
RECURSIVE sort_by_similarity(_)
sort_by_similarity(results) ==
    IF results = <<>> THEN <<>>
    ELSE LET sorted == sort_by_similarity(Tail(results))
             e == Head(results)
             p == Cardinality({i \in 1..Len(sorted) :
                                  FracLess(e.similarity, sorted[i].similarity)})
         IN  SubSeq(sorted, 1, p) \o <<e>> \o SubSeq(sorted, p + 1, Len(sorted))

Min(a, b) == IF a <= b THEN a ELSE b

\* The records the loops of search and get_similarity_scores build, one per
\* chunk, in chunk order ('index' is the 0-based enumerate index).
score_records(query_text) ==
    LET query_words == words(query_text)
    IN  [i \in 1..Len(chunks) |->
            [chunk |-> chunks[i],
             similarity |-> JaccardSimilarity(query_words, words(chunks[i])),
             index |-> i - 1]]

\* search(query_text, top_k) for a string query and top_k >= 0.  A chunk whose
\* union with the query is empty is not scored ('if union:' has no else).
search(query_text, top_k) ==
    IF chunks = <<>>
    THEN [raised |-> TRUE, value |-> <<>>]
    ELSE LET query_words == words(query_text)
             has_union(r) == query_words \cup words(r.chunk) # {}
             scored_chunks == sort_by_similarity(
                                 SelectSeq(score_records(query_text), has_union))
             results == [i \in 1..Min(top_k, Len(scored_chunks)) |->
                            scored_chunks[i].chunk]
         IN  [raised |-> FALSE,
              value |-> IF results # <<>> THEN results
                        ELSE Slice(chunks, 0, top_k)]

\* A mutation of get_similarity_scores: chunks whose union with the query is
\* empty are left out, as search leaves them out.
get_similarity_scores_skipping(query_text, top_k) ==
    IF chunks = <<>>
    THEN <<>>
    ELSE LET query_words == words(query_text)
             has_union(r) == query_words \cup words(r.chunk) # {}
             results == sort_by_similarity(
                            SelectSeq(score_records(query_text), has_union))
         IN  Slice(results, 0, top_k)

\* get_similarity_scores(query_text, top_k) for a string query and top_k >= 0.
get_similarity_scores(query_text, top_k) ==
    IF chunks = <<>>
    THEN <<>>
    ELSE LET results == sort_by_similarity(score_records(query_text))
         IN  Slice(results, 0, top_k)

\* A mutation of build_index: the emptiness check is missing.
build_index_unchecked(text_chunks) ==
    /\ chunks' = text_chunks
    /\ built' = (built \/ text_chunks # <<>>)
    /\ ret' = [op |-> "build_index", text_chunks |-> text_chunks, raised |-> FALSE]
    /\ UNCHANGED <<srs_requirements, test_cases, matrix_data>>

\* build_index(text_chunks)
build_index(text_chunks) ==
    IF text_chunks = <<>>
    THEN /\ ret' = [op |-> "build_index", text_chunks |-> text_chunks,
                    raised |-> TRUE]
         /\ UNCHANGED <<chunks, built, srs_requirements, test_cases, matrix_data>>
    ELSE /\ chunks' = text_chunks
         /\ built' = TRUE
         /\ ret' = [op |-> "build_index", text_chunks |-> text_chunks,
                    raised |-> FALSE]
         /\ UNCHANGED <<srs_requirements, test_cases, matrix_data>>

\* a call of search
Search(query_text, top_k) ==
    /\ LET r == search(query_text, top_k)
       IN  ret' = [op |-> "search", query_text |-> query_text, top_k |-> top_k,
                   raised |-> r.raised, value |-> r.value]
    /\ UNCHANGED <<chunks, built, srs_requirements, test_cases, matrix_data>>

\* a call of get_similarity_scores
GetSimilarityScores(query_text, top_k) ==
    /\ ret' = [op |-> "get_similarity_scores", query_text |-> query_text,
               top_k |-> top_k, raised |-> FALSE,
               value |-> get_similarity_scores(query_text, top_k)]
    /\ UNCHANGED <<chunks, built, srs_requirements, test_cases, matrix_data>>

-----------------------------------------------------------------------------
(* mapping_engine.py: requirement extraction                               *)

MinChunkLength == 50        \* chunks shorter than this are skipped
MinSentenceLength == 60     \* a generic requirement's sentence is longer than this
FingerprintLength == 100    \* characters of the content that are hashed for dedup
ContextWindow == 150        \* characters around a match when no sentence is found

\* The value of match.group(1) when the group took no part in the match, or the
\* pattern has no group.
NoGroup == "<None>"

\* enhanced_patterns of extract_requirements, in dictionary order.  Every
\* pattern but the user-story sentence pattern is
\*     (?:keyword|...)[_\-\s]*(\d+\.?\d*)     with the number group required
\*     keyword[_\-\s]*(\d+\.?\d*)?            with the number group optional
\* compiled with re.IGNORECASE.  A keyword "non~functional" stands for
\* non.?functional; kind "sentence" is  as a .* I want .* so that.
enhanced_patterns ==
    << [type |-> "functional", kind |-> "number",
        keywords |-> <<"fr", "functional requirement", "requirement">>],
       [type |-> "functional", kind |-> "number",
        keywords |-> <<"req", "requirement">>],
       [type |-> "functional", kind |-> "optional",
        keywords |-> <<"the system shall">>],
       [type |-> "functional", kind |-> "optional",
        keywords |-> <<"the system must">>],
       [type |-> "functional", kind |-> "number",
        keywords |-> <<"function">>],
       [type |-> "non_functional", kind |-> "number",
        keywords |-> <<"nfr", "non~functional">>],
       [type |-> "non_functional", kind |-> "number",
        keywords |-> <<"performance", "security", "usability">>],
       [type |-> "non_functional", kind |-> "number",
        keywords |-> <<"quality", "reliability">>],
       [type |-> "user_story", kind |-> "number",
        keywords |-> <<"us", "user story">>],
       [type |-> "user_story", kind |-> "sentence",
        keywords |-> <<"as a ", " i want ", " so that">>],
       [type |-> "user_story", kind |-> "number",
        keywords |-> <<"story">>] >>

\* req_type.upper()
TypeUpper(type) ==
    CASE type = "functional" -> "FUNCTIONAL"
      [] type = "non_functional" -> "NON_FUNCTIONAL"
      [] type = "user_story" -> "USER_STORY"

\* [_\-\s]
IsSeparator(c) == c \in {"_", "-"} \/ IsSpace(c)

\* The 0-based offset of the first character at or after offset p that does
\* not satisfy the class (Len(text) when there is none): where a greedy
\* class* beginning at p ends.
RECURSIVE SkipSeparators(_, _)
SkipSeparators(text, p) ==
    IF p < Len(text) /\ IsSeparator(Char(text, p + 1))
    THEN SkipSeparators(text, p + 1) ELSE p

RECURSIVE SkipDigits(_, _)
SkipDigits(text, p) ==
    IF p < Len(text) /\ Char(text, p + 1) \in Digits
    THEN SkipDigits(text, p + 1) ELSE p

\* Where the keyword ends when it matches the lower-cased text at offset p, or
\* -1.  "non~functional" is non.?functional: the optional character is tried
\* first (greedy), then its absence.
KeywordEnd(ltext, p, keyword) ==
    IF keyword = "non~functional"
    THEN IF StartsAt(ltext, p, "non") /\ p + 3 < Len(ltext)
            /\ Char(ltext, p + 4) # "\n" /\ StartsAt(ltext, p + 4, "functional")
         THEN p + 14
         ELSE IF StartsAt(ltext, p, "nonfunctional") THEN p + 13 ELSE 0 - 1
    ELSE IF StartsAt(ltext, p, keyword) THEN p + Len(keyword) ELSE 0 - 1

\* [_\-\s]*(\d+\.?\d*) from offset q: the end of the match and group(1); end
\* is -1 when no digit follows the separators.
NumberFrom(text, q) ==
    Bind(SkipSeparators(text, q), LAMBDA a :
    Bind(SkipDigits(text, a), LAMBDA b :
        IF b = a THEN [end |-> 0 - 1, after_separators |-> a, group |-> NoGroup]
        ELSE Bind(SkipDigits(text, IF b < Len(text) /\ Char(text, b + 1) = "."
                                   THEN b + 1 ELSE b),
                  LAMBDA d : [end |-> d, after_separators |-> a,
                              group |-> Slice(text, a, d)])))

\* The last offset q in from..Len(ltext) at which the keyword matches, or -1.
LastOccurrence(ltext, from, keyword) ==
    Bind({q \in from..Len(ltext) : StartsAt(ltext, q, keyword)}, LAMBDA at :
        IF at = {} THEN 0 - 1 ELSE SetMax(at))

NoMatch(p) == [ok |-> FALSE, start |-> p, end |-> p, group |-> NoGroup]

\* re.match of the k-th alternative of a numbered pattern at offset p, with
\* the separators and the number that follow the keyword.
Alternative(text, ltext, p, pattern, k) ==
    Bind(KeywordEnd(ltext, p, pattern.keywords[k]), LAMBDA e :
        IF e < 0 THEN NoMatch(p)
        ELSE Bind(NumberFrom(text, e), LAMBDA num :
                 IF pattern.kind = "optional" \/ num.end >= 0
                 THEN [ok |-> TRUE, start |-> p,
                       end |-> IF num.end >= 0 THEN num.end ELSE num.after_separators,
                       group |-> num.group]
                 ELSE NoMatch(p)))

\* re.match of one pattern at offset p of a text without line breaks:
\* [ok, start, end, group].
MatchAt(text, ltext, p, pattern) ==
    IF pattern.kind = "sentence"
    THEN \* as a .* I want .* so that: each .* is greedy, so the match ends
         \* at the last " so that" that a " i want " precedes.
         Bind(LastOccurrence(ltext, p + 5 + 8, " so that"), LAMBDA so :
             IF /\ StartsAt(ltext, p, "as a ")
                /\ so >= 0
                /\ \E q \in (p + 5)..(so - 8) : StartsAt(ltext, q, " i want ")
             THEN [ok |-> TRUE, start |-> p, end |-> so + 8, group |-> NoGroup]
             ELSE NoMatch(p))
    ELSE \* the alternatives are tried in order; the first that matches is
         \* taken
         Bind({k \in 1..Len(pattern.keywords) :
                  Alternative(text, ltext, p, pattern, k).ok},
              LAMBDA alts :
                 IF alts = {} THEN NoMatch(p)
                 ELSE Alternative(text, ltext, p, pattern, SetMin(alts)))

\* re.finditer(pattern, chunk, re.MULTILINE | re.IGNORECASE) from offset pos:
\* the leftmost match, then the matches after its end.
RECURSIVE finditer(_, _, _, _)
finditer(text, ltext, pos, pattern) ==
    Bind({p \in pos..(Len(text) - 1) : MatchAt(text, ltext, p, pattern).ok},
         LAMBDA at :
            IF at = {} THEN <<>>
            ELSE Bind(MatchAt(text, ltext, SetMin(at), pattern), LAMBDA m :
                     <<m>> \o finditer(text, ltext, m.end, pattern)))

\* re.split(r'[.!?]+', text)
IsSentenceEnd(c) == c \in {".", "!", "?"}

RECURSIVE re_split_sentences(_)
re_split_sentences(text) ==
    Bind({i \in 1..Len(text) : IsSentenceEnd(Char(text, i))}, LAMBDA ends :
        IF ends = {} THEN <<text>>
        ELSE Bind(SetMin(ends), LAMBDA i :
             \* the run of delimiters that begins at i ends before k
             Bind({j \in (i + 1)..Len(text) : ~IsSentenceEnd(Char(text, j))},
                  LAMBDA run :
                     <<SubSeq(text, 1, i - 1)>>
                       \o re_split_sentences(
                              SubSeq(text, IF run = {} THEN Len(text) + 1
                                           ELSE SetMin(run), Len(text))))))

\* current_pos when the loop of _extract_requirement_content_enhanced reaches
\* sentence i (1-based): every earlier sentence counted with one delimiter.
RECURSIVE PositionOf(_, _)
PositionOf(sentences, i) ==
    IF i = 1 THEN 0 ELSE PositionOf(sentences, i - 1) + Len(sentences[i - 1]) + 1

\* _extract_requirement_content_enhanced(text, start, end)
_extract_requirement_content_enhanced(text, start, end) ==
    Bind(re_split_sentences(text), LAMBDA sentences :
    Bind({i \in 1..Len(sentences) :
             Bind(PositionOf(sentences, i), LAMBDA current_pos :
                 /\ current_pos <= start
                 /\ start <= current_pos + Len(sentences[i]) + 1)},
         LAMBDA found :
            IF found # {}
            THEN Bind(SetMin(found), LAMBDA i :
                     join(". ",
                          (IF i > 1 THEN <<strip(sentences[i - 1])>> ELSE <<>>)
                            \o <<strip(sentences[i])>>
                            \o (IF i < Len(sentences)
                                THEN <<strip(sentences[i + 1])>> ELSE <<>>)))
            ELSE Slice(text,
                       IF start > ContextWindow THEN start - ContextWindow ELSE 0,
                       end + ContextWindow)))

\* _split_into_sentences(text)
_split_into_sentences(text) ==
    Bind(re_split_sentences(text), LAMBDA sentences :
        SelectSeq([i \in DOMAIN sentences |-> strip(sentences[i])],
                  LAMBDA x : x # ""))

\* any(keyword in content_lower for keyword in keywords)
ContainsAny(content_lower, keywords) ==
    \E k \in keywords : Contains(content_lower, k)

\* A mutation of _determine_priority: the low keywords are looked for
\* before the medium ones.
_determine_priority_low_first(content) ==
    Bind(lower(content), LAMBDA content_lower :
        IF ContainsAny(content_lower,
              {"critical", "essential", "must", "required", "mandatory", "shall"})
        THEN "high"
        ELSE IF ContainsAny(content_lower, {"may", "could", "optional", "nice to have"})
        THEN "low"
        ELSE "medium")

\* _determine_priority(content)
_determine_priority(content) ==
    Bind(lower(content), LAMBDA content_lower :
        IF ContainsAny(content_lower,
              {"critical", "essential", "must", "required", "mandatory", "shall"})
        THEN "high"
        ELSE IF ContainsAny(content_lower, {"should", "important", "recommended"})
        THEN "medium"
        ELSE IF ContainsAny(content_lower, {"may", "could", "optional", "nice to have"})
        THEN "low"
        ELSE "medium")

\* categories of _categorize_requirement, in dictionary order
categories ==
    << [category |-> "authentication",
        keywords |-> {"login", "password", "authentication", "credential", "user access"}],
       [category |-> "validation",
        keywords |-> {"validate", "validation", "verify", "check", "ensure"}],
       [category |-> "interface",
        keywords |-> {"display", "show", "interface", "ui", "user interface", "screen"}],
       [category |-> "data",
        keywords |-> {"data", "database", "store", "save", "retrieve", "record"}],
       [category |-> "security",
        keywords |-> {"security", "secure", "permission", "authorization", "access control"}],
       [category |-> "performance",
        keywords |-> {"performance", "speed", "response time", "load", "scalability"}],
       [category |-> "integration",
        keywords |-> {"integration", "api", "external", "third party", "interface"}] >>

\* _categorize_requirement(content)
_categorize_requirement(content) ==
    Bind(lower(content), LAMBDA content_lower :
    Bind({i \in 1..Len(categories) :
             ContainsAny(content_lower, categories[i].keywords)},
         LAMBDA hits :
            IF hits = {} THEN "general" ELSE categories[SetMin(hits)].category))

\* The candidates of one chunk in the order the loops over the pattern
\* families, their patterns and each pattern's matches visit them: the type,
\* match.group(1), and the content, priority and category computed from the
\* match.
RECURSIVE CandidatesFrom(_, _, _)
CandidatesFrom(chunk, ltext, k) ==
    IF k > Len(enhanced_patterns) THEN <<>>
    ELSE Bind(finditer(chunk, ltext, 0, enhanced_patterns[k]), LAMBDA matches :
             [i \in 1..Len(matches) |->
                 Bind(_extract_requirement_content_enhanced(
                          chunk, matches[i].start, matches[i].end),
                      LAMBDA content :
                         [type |-> enhanced_patterns[k].type,
                          group |-> matches[i].group,
                          content |-> content,
                          priority |-> _determine_priority(content),
                          category |-> _categorize_requirement(content)])]
               \o CandidatesFrom(chunk, ltext, k + 1))

pattern_candidates(chunk) ==
    Bind(lower(chunk), LAMBDA ltext : CandidatesFrom(chunk, ltext, 1))

\* What the extraction reads off a chunk, tabulated once for the pool.
ChunkFacts(chunk) ==
    [candidates |-> pattern_candidates(chunk),
     sentences |-> _split_into_sentences(chunk),
     stripped_length |-> Len(strip(chunk))]

ChunkTable == [c \in DocChunkPool |-> ChunkFacts(c)]

facts(chunk) == ChunkTable[chunk]

\* hash(content.strip()[:100]): the hash is taken as one-to-one on the hashed
\* prefixes (a collision of two different prefixes is not modelled).
content_hash(content) == Slice(strip(content), 0, FingerprintLength)

\* req_id of a pattern match: TYPE_<number> when group(1) matched, otherwise
\* TYPE_<chunk_idx>_<len(requirements)>
requirement_id(type, group, chunk_idx, count) ==
    IF group # NoGroup
    THEN TypeUpper(type) \o "_" \o group
    ELSE TypeUpper(type) \o "_" \o ToString(chunk_idx) \o "_" \o ToString(count)

\* The loop over the matches of a chunk: a candidate whose content hash is in
\* processed_content is skipped, any other is appended and its hash recorded.
RECURSIVE AddCandidates(_, _, _, _)
AddCandidates(candidates, chunk_idx, requirements, processed_content) ==
    IF candidates = <<>>
    THEN [requirements |-> requirements, processed_content |-> processed_content]
    ELSE LET c == Head(candidates)
             h == content_hash(c.content)
             req == [id |-> requirement_id(c.type, c.group, chunk_idx, Len(requirements)),
                     type |-> c.type,
                     content |-> strip(c.content),
                     chunk_index |-> chunk_idx,
                     priority |-> c.priority,
                     category |-> c.category,
                     validation_status |-> "pending"]
         IN  IF h \in processed_content
             THEN AddCandidates(Tail(candidates), chunk_idx, requirements, processed_content)
             ELSE AddCandidates(Tail(candidates), chunk_idx, Append(requirements, req),
                                processed_content \cup {h})

\* The loop over the sentences of a chunk without pattern requirements; i is
\* the 0-based enumerate index of Head(sentences).
RECURSIVE AddSentences(_, _, _, _, _)
AddSentences(sentences, i, chunk_idx, requirements, processed_content) ==
    IF sentences = <<>>
    THEN [requirements |-> requirements, processed_content |-> processed_content]
    ELSE LET sentence == Head(sentences)
             h == content_hash(sentence)
             req == [id |-> "REQ_" \o ToString(chunk_idx) \o "_" \o ToString(i),
                     type |-> "general",
                     content |-> strip(sentence),
                     chunk_index |-> chunk_idx,
                     priority |-> "medium",
                     category |-> "general",
                     validation_status |-> "pending"]
         IN  IF Len(strip(sentence)) > MinSentenceLength /\ h \notin processed_content
             THEN AddSentences(Tail(sentences), i + 1, chunk_idx,
                               Append(requirements, req), processed_content \cup {h})
             ELSE AddSentences(Tail(sentences), i + 1, chunk_idx,
                               requirements, processed_content)

\* A mutation of _extract_requirements_from_chunk_enhanced: the generic
\* sentences are added to the pattern requirements of every chunk.
_extract_always_generic(chunk, chunk_idx, processed_content) ==
    Bind(facts(chunk), LAMBDA read :
    Bind(AddCandidates(read.candidates, chunk_idx, <<>>, processed_content),
         LAMBDA matched :
            AddSentences(read.sentences, 0, chunk_idx,
                         matched.requirements, matched.processed_content)))

\* _extract_requirements_from_chunk_enhanced(chunk, chunk_idx, patterns,
\* processed_content): the requirements of the chunk, and processed_content as
\* the call leaves it.
_extract_requirements_from_chunk_enhanced(chunk, chunk_idx, processed_content) ==
    Bind(facts(chunk), LAMBDA read :
    Bind(AddCandidates(read.candidates, chunk_idx, <<>>, processed_content),
         LAMBDA matched :
            IF matched.requirements = <<>>
            THEN AddSentences(read.sentences, 0, chunk_idx, <<>>,
                              matched.processed_content)
            ELSE matched))

\* The characters that occur in requirement ids, in code-point order.
AsciiOrder ==
    ".0123456789ABCDEFGHIJKLMNOPQRSTUVWXYZ_abcdefghijklmnopqrstuvwxyz"

Ord(c) == CHOOSE i \in 1..Len(AsciiOrder) : Char(AsciiOrder, i) = c

\* a < b for Python strings
RECURSIVE StrLess(_, _)
StrLess(a, b) ==
    IF b = "" THEN FALSE
    ELSE IF a = "" THEN TRUE
    ELSE IF Head(a) = Head(b) THEN StrLess(Tail(a), Tail(b))
    ELSE Ord(Head(a)) < Ord(Head(b))

\* requirements.sort(key=lambda x: x['id']): ascending and stable
RECURSIVE sort_by_id(_)
sort_by_id(requirements) ==
    IF requirements = <<>> THEN <<>>
    ELSE Bind(sort_by_id(Tail(requirements)), LAMBDA sorted :
         Bind(Cardinality({i \in 1..Len(sorted) :
                              StrLess(sorted[i].id, Head(requirements).id)}),
              LAMBDA p :
                 SubSeq(sorted, 1, p) \o <<Head(requirements)>>
                    \o SubSeq(sorted, p + 1, Len(sorted))))

\* The loop of extract_requirements from chunk chunk_idx (0-based) on.
RECURSIVE ExtractFrom(_, _, _, _)
ExtractFrom(text_chunks, chunk_idx, requirements, processed_content) ==
    IF chunk_idx >= Len(text_chunks) THEN requirements
    ELSE Bind(_extract_requirements_from_chunk_enhanced(
                  text_chunks[chunk_idx + 1], chunk_idx, processed_content),
              LAMBDA chunk_requirements :
                 IF facts(text_chunks[chunk_idx + 1]).stripped_length < MinChunkLength
                 THEN ExtractFrom(text_chunks, chunk_idx + 1, requirements,
                                  processed_content)
                 ELSE ExtractFrom(text_chunks, chunk_idx + 1,
                                  requirements \o chunk_requirements.requirements,
                                  chunk_requirements.processed_content))

\* extract_requirements(text_chunks)
extract_requirements(text_chunks) ==
    sort_by_id(ExtractFrom(text_chunks, 0, <<>>, {}))

\* extract_requirements, tabulated once for the chunk sequences the calls draw
ExtractTable == [cs \in DocChunkSeqs \cup MapChunkSeqs |-> extract_requirements(cs)]

\* A mutation of extracted: processed_content is kept between calls, and
\* starts with the contents of the requirements of the call before.
extracted_after_earlier(text_chunks) ==
    sort_by_id(ExtractFrom(text_chunks, 0, <<>>,
                           {content_hash(srs_requirements[i].content) :
                               i \in 1..Len(srs_requirements)}))

extracted(text_chunks) == ExtractTable[text_chunks]

\* a call of extract_requirements whose result the caller keeps
ExtractRequirements(text_chunks) ==
    /\ srs_requirements' = extracted(text_chunks)
    /\ ret' = [op |-> "extract_requirements", text_chunks |-> text_chunks,
               raised |-> FALSE, value |-> srs_requirements']
    /\ UNCHANGED <<chunks, built, test_cases, matrix_data>>

-----------------------------------------------------------------------------
(* mapping_engine.py: mapping test cases to requirements                   *)

\* The value standing for a key that a requirement dict does not have.
NoKey == "<no key>"

\* A requirement dict without the key 'id', and one without the key 'content'.
WithoutId(content) ==
    [id |-> NoKey, type |-> "general", content |-> content, chunk_index |-> 0,
     priority |-> "medium", category |-> "general", validation_status |-> "pending"]

WithoutContent(id) ==
    [id |-> id, type |-> "general", content |-> NoKey, chunk_index |-> 0,
     priority |-> "medium", category |-> "general", validation_status |-> "pending"]

\* Requirement lists a caller of the mapper can pass that extract_requirements
\* did not return: the requirements of Scenario A after a dict without 'id'
\* whose content is part of the login chunk, and after a dict without
\* 'content'.
HandWrittenRequirements ==
    { <<WithoutId("valid credentials")>> \o extracted(<<ScenarioLogin, ScenarioPassword>>),
      <<WithoutContent("FR_7")>> \o extracted(<<ScenarioLogin, ScenarioPassword>>) }

\* the outcome of a call: an exception, or a returned value
Raise == [raised |-> TRUE, value |-> <<>>]
Return(value) == [raised |-> FALSE, value |-> value]

\* A mutation of threshold: 0.1
threshold_low == Frac(1, 10)

threshold == Frac(3, 10)    \* threshold=0.3
ExcerptLength == 200        \* req['content'][:200]
MaxMatches == 3             \* sorted_matches[:3]

\* req['content'][:200] + "..." if len(req['content']) > 200 else req['content']
excerpt(content) ==
    IF Len(content) > ExcerptLength
    THEN Slice(content, 0, ExcerptLength) \o "..."
    ELSE content

\* The inner loop of the primary path: the match made from the first
\* requirement whose content is inside the chunk or holds the chunk, if any.
chunk_matches(sim_result, requirements) ==
    Bind({i \in 1..Len(requirements) :
             \/ Contains(sim_result.chunk, requirements[i].content)
             \/ Contains(requirements[i].content, sim_result.chunk)},
         LAMBDA related :
            IF related = {} THEN <<>>
            ELSE << [requirement_id |-> requirements[SetMin(related)].id,
                     similarity_score |-> sim_result.similarity,
                     content |-> excerpt(requirements[SetMin(related)].content)] >>)

\* The outer loop of the primary path over similarity_results[i..].
RECURSIVE semantic_matches(_, _, _)
semantic_matches(similarity_results, i, requirements) ==
    IF i > Len(similarity_results) THEN <<>>
    ELSE (IF FracLess(threshold, similarity_results[i].similarity)
          THEN chunk_matches(similarity_results[i], requirements)
          ELSE <<>>)
         \o semantic_matches(similarity_results, i + 1, requirements)

\* unique_matches: one match per requirement id, at the place of the first
\* one, replaced by a later one with a greater score.
RECURSIVE unique_matches(_, _)
unique_matches(matched_requirements, unique) ==
    IF matched_requirements = <<>> THEN unique
    ELSE Bind(Head(matched_requirements), LAMBDA match :
         Bind({i \in 1..Len(unique) :
                  unique[i].requirement_id = match.requirement_id},
              LAMBDA same :
                 unique_matches(
                     Tail(matched_requirements),
                     IF same = {} THEN Append(unique, match)
                     ELSE IF FracLess(unique[SetMin(same)].similarity_score,
                                      match.similarity_score)
                          THEN [unique EXCEPT ![SetMin(same)] = match]
                          ELSE unique)))

\* A mutation of sort_by_score: the matches in ascending order of score.
RECURSIVE sort_by_score_ascending(_)
sort_by_score_ascending(matches) ==
    IF matches = <<>> THEN <<>>
    ELSE Bind(sort_by_score_ascending(Tail(matches)), LAMBDA sorted :
         Bind(Cardinality({i \in 1..Len(sorted) :
                              FracLess(sorted[i].similarity_score,
                                       Head(matches).similarity_score)}),
              LAMBDA p :
                 SubSeq(sorted, 1, p) \o <<Head(matches)>>
                    \o SubSeq(sorted, p + 1, Len(sorted))))

\* sorted(..., key=similarity_score, reverse=True): descending and stable
RECURSIVE sort_by_score(_)
sort_by_score(matches) ==
    IF matches = <<>> THEN <<>>
    ELSE Bind(sort_by_score(Tail(matches)), LAMBDA sorted :
         Bind(Cardinality({i \in 1..Len(sorted) :
                              FracLess(Head(matches).similarity_score,
                                       sorted[i].similarity_score)}),
              LAMBDA p :
                 SubSeq(sorted, 1, p) \o <<Head(matches)>>
                    \o SubSeq(sorted, p + 1, Len(sorted))))

\* The try block of _find_matching_requirements.  req['content'] raises in
\* the list comprehension when a requirement has no such key, and req['id']
\* raises when the first requirement related to a chunk above the threshold
\* has no such key; get_similarity_scores never raises.
primary_path(content, requirements) ==
    IF \E i \in 1..Len(requirements) : requirements[i].content = NoKey
    THEN Raise
    ELSE Bind(semantic_matches(
                  get_similarity_scores(content, Len(requirements)), 1, requirements),
              LAMBDA matched_requirements :
                 IF \E i \in 1..Len(matched_requirements) :
                        matched_requirements[i].requirement_id = NoKey
                 THEN Raise
                 ELSE Return(matched_requirements))

\* " ".join([test_case.get('title', ''), ...]).lower() of the keyword
\* fallback: defined when each of the four fields is a string or absent.
joinable(test_case) ==
    \A value \in {test_case.title, test_case.description, test_case.steps,
                  test_case.query} : value.kind \in {"str", "missing"}

keyword_content(test_case) ==
    lower(join(" ", <<test_case.title.str, test_case.description.str,
                      test_case.steps.str, test_case.query.str>>))

\* keyword_content, tabulated once for the test cases the calls draw
KeywordContentTable ==
    [tc \in {t \in TestCasePool \cup GeneratedTestCases : joinable(t)} |->
        keyword_content(tc)]

\* The loop of _keyword_based_matching over requirements[i..].
RECURSIVE keyword_matches(_, _, _)
keyword_matches(test_keywords, requirements, i) ==
    IF i > Len(requirements) THEN <<>>
    ELSE Bind(words(requirements[i].content), LAMBDA req_keywords :
         Bind(JaccardSimilarity(test_keywords, req_keywords), LAMBDA similarity :
            (IF test_keywords \cup req_keywords # {} /\ FracLess(threshold, similarity)
             THEN << [requirement_id |-> requirements[i].id,
                      similarity_score |-> similarity,
                      content |-> excerpt(requirements[i].content)] >>
             ELSE <<>>)
            \o keyword_matches(test_keywords, requirements, i + 1)))

\* _keyword_based_matching(test_case, requirements): the join raises on a
\* field that is not a string, req['content'] on a requirement without that
\* key, req['id'] on a requirement above the threshold without that key.
_keyword_based_matching(test_case, requirements) ==
    IF \/ ~joinable(test_case)
       \/ \E i \in 1..Len(requirements) : requirements[i].content = NoKey
    THEN Raise
    ELSE Bind(keyword_matches(words(KeywordContentTable[test_case]), requirements, 1),
              LAMBDA matched_requirements :
                 IF \E i \in 1..Len(matched_requirements) :
                        matched_requirements[i].requirement_id = NoKey
                 THEN Raise
                 ELSE Return(matched_requirements))

\* The candidate matches of _find_matching_requirements for a non-empty
\* composite text: those of the try block, or of the keyword fallback when the
\* try block raised; an exception of the fallback is not caught.
matched_requirements_of(test_case, requirements) ==
    Bind(primary_path(content_of(test_case), requirements), LAMBDA primary :
        IF primary.raised
        THEN _keyword_based_matching(test_case, requirements)
        ELSE primary)

\* _find_matching_requirements(test_case, requirements)
_find_matching_requirements(test_case, requirements) ==
    IF requirements = <<>> \/ ~test_case.dict THEN Return(<<>>)
    ELSE IF content_of(test_case) = "" THEN Return(<<>>)
    ELSE Bind(matched_requirements_of(test_case, requirements), LAMBDA matched :
            IF matched.raised THEN Raise
            ELSE Bind(sort_by_score(unique_matches(matched.value, <<>>)),
                      LAMBDA sorted_matches :
                         Return(Slice(sorted_matches, 0, MaxMatches))))

\* the greatest similarity_score of a non-empty match list
max_score(mapped_requirements) ==
    mapped_requirements[
        CHOOSE i \in 1..Len(mapped_requirements) :
            \A j \in 1..Len(mapped_requirements) :
                FracLeq(mapped_requirements[j].similarity_score,
                        mapped_requirements[i].similarity_score)].similarity_score

\* bool(value) of a test-case field
truthy(value) ==
    \/ value.kind = "str" /\ value.str # ""
    \/ value.kind = "list" /\ value.list # <<>>
    \/ value.kind = "int" /\ value.int # 0

\* whether the test case names the id of one of its matches
explicitly_linked(test_case, mapped_requirements) ==
    /\ truthy(test_case.requirement_id)
    /\ \E i \in 1..Len(mapped_requirements) :
          /\ test_case.requirement_id.kind = "str"
          /\ mapped_requirements[i].requirement_id = test_case.requirement_id.str

\* A mutation of _calculate_mapping_confidence: the boost for an explicit
\* link is not capped at 1.0.
_calculate_mapping_confidence_uncapped(test_case, mapped_requirements) ==
    IF mapped_requirements = <<>> THEN Zero
    ELSE Bind(max_score(mapped_requirements), LAMBDA max_similarity :
         Bind(IF explicitly_linked(test_case, mapped_requirements)
              THEN FracAdd(max_similarity, Frac(1, 5))
              ELSE max_similarity,
              LAMBDA boosted :
                 round3(IF Len(mapped_requirements) > 2
                        THEN FracMul(boosted, Frac(4, 5))
                        ELSE boosted)))

\* A mutation of _calculate_mapping_confidence: the penalty for more than 2
\* matches is taken before the boost for an explicit link.
_calculate_mapping_confidence_penalty_first(test_case, mapped_requirements) ==
    IF mapped_requirements = <<>> THEN Zero
    ELSE Bind(max_score(mapped_requirements), LAMBDA max_similarity :
         Bind(IF Len(mapped_requirements) > 2
              THEN FracMul(max_similarity, Frac(4, 5))
              ELSE max_similarity,
              LAMBDA scaled :
                 round3(IF explicitly_linked(test_case, mapped_requirements)
                        THEN FracMin(One, FracAdd(scaled, Frac(1, 5)))
                        ELSE scaled)))

\* _calculate_mapping_confidence(test_case, mapped_requirements, _)
_calculate_mapping_confidence(test_case, mapped_requirements) ==
    IF mapped_requirements = <<>> THEN Zero
    ELSE Bind(max_score(mapped_requirements), LAMBDA max_similarity :
         Bind(IF explicitly_linked(test_case, mapped_requirements)
              THEN FracMin(One, FracAdd(max_similarity, Frac(1, 5)))
              ELSE max_similarity,
              LAMBDA boosted :
                 round3(IF Len(mapped_requirements) > 2
                        THEN FracMul(boosted, Frac(4, 5))
                        ELSE boosted)))

\* dict.get(key): None when the key is missing
get(value) == IF value.kind = "missing" THEN None ELSE value

\* The mapping_result of one test case ('mapping_date', the wall-clock time of
\* the call, is left out).
mapping_result(test_case, mapped_requirements) ==
    [test_case_id |-> get(test_case.id),
     test_case_title |-> get(test_case.title),
     mapped_requirements |-> mapped_requirements,
     mapping_confidence |->
         _calculate_mapping_confidence(test_case, mapped_requirements),
     mapping_method |-> "semantic_similarity"]

\* A mutation of valid_test_cases: every entry is taken.
valid_test_cases_unfiltered(tcs) == tcs

\* [tc for tc in test_cases if isinstance(tc, dict)]
valid_test_cases(tcs) == SelectSeq(tcs, LAMBDA tc : tc.dict)

\* The loop of map_test_cases_to_requirements over the valid test cases: an
\* exception of _find_matching_requirements ends the call.
map_valid_test_cases(valid, requirements) ==
    Bind([i \in 1..Len(valid) |-> _find_matching_requirements(valid[i], requirements)],
         LAMBDA found :
            IF \E i \in 1..Len(valid) : found[i].raised THEN Raise
            ELSE Return([i \in 1..Len(valid) |->
                            mapping_result(valid[i], found[i].value)]))

\* map_test_cases_to_requirements(test_cases, requirements); is_list tells
\* whether test_cases is a list, and anything else is taken as the empty list.
map_test_cases_to_requirements(is_list, tcs, requirements) ==
    map_valid_test_cases(
        valid_test_cases(IF is_list THEN tcs ELSE <<>>), requirements)

\* A call of map_test_cases_to_requirements.
MapCall(is_list, tcs, requirements) ==
    /\ ret' = [op |-> "map_test_cases_to_requirements", is_list |-> is_list,
               test_cases |-> tcs, requirements |-> requirements]
              @@ map_test_cases_to_requirements(is_list, tcs, requirements)
    /\ UNCHANGED <<chunks, built, srs_requirements, test_cases, matrix_data>>

\* the call on the requirements the caller keeps
MapTestCases(tcs) == MapCall(TRUE, tcs, srs_requirements)

\* the call on a requirement list written by hand
MapToHandWritten(tcs, requirements) == MapCall(TRUE, tcs, requirements)

\* the call with something that is not a list in the place of test_cases
MapNotAList == MapCall(FALSE, <<>>, srs_requirements)

-----------------------------------------------------------------------------
(* traceability_matrix.py                                                  *)

MinOverlap == 3             \* len(overlap) >= 3
UncoveredExcerpt == 100     \* req['content'][:100]
MaxUncovered == 10          \* [...][:10]

\* self.matrix_data = None: the cache is a sequence of at most one matrix
NoMatrix == <<>>

\* set(text.split()): the maximal runs of characters that are not whitespace
split(text) ==
    Bind(Len(text), LAMBDA n :
        { SubSeq(text, i,
                 SetMin({j \in i..n : j = n \/ IsSpace(Char(text, j + 1))})) :
          i \in {k \in 1..n : /\ ~IsSpace(Char(text, k))
                               /\ (k = 1 \/ IsSpace(Char(text, k - 1)))} })

\* set(text.lower().split()), tabulated once for the document chunks
TokenTable == [t \in DocChunkPool |-> split(lower(t))]

tokens(text) == IF text \in DocChunkPool THEN TokenTable[text] ELSE split(lower(text))

\* set(test_content.split()), tabulated once for the test cases the calls draw
TestTokenTable ==
    [tc \in DOMAIN KeywordContentTable |-> split(KeywordContentTable[tc])]

\* A mutation of overlap_mapped: an id is appended also when it is in the
\* list already.
RECURSIVE overlap_mapped_repeating(_, _, _, _)
overlap_mapped_repeating(requirements, i, test_keywords, mapped_reqs) ==
    IF i > Len(requirements) THEN mapped_reqs
    ELSE overlap_mapped_repeating(
             requirements, i + 1, test_keywords,
             IF Cardinality(tokens(requirements[i].content) \cap test_keywords)
                   >= MinOverlap
             THEN Append(mapped_reqs, Str(requirements[i].id))
             ELSE mapped_reqs)

\* The loop of _find_mapped_requirements over requirements[i..]: the id of
\* each requirement that shares at least 3 tokens with the test case is
\* appended unless it is there already.
RECURSIVE overlap_mapped(_, _, _, _)
overlap_mapped(requirements, i, test_keywords, mapped_reqs) ==
    IF i > Len(requirements) THEN mapped_reqs
    ELSE overlap_mapped(
             requirements, i + 1, test_keywords,
             IF /\ Cardinality(tokens(requirements[i].content) \cap test_keywords)
                      >= MinOverlap
                /\ \A m \in 1..Len(mapped_reqs) : mapped_reqs[m] # Str(requirements[i].id)
             THEN Append(mapped_reqs, Str(requirements[i].id))
             ELSE mapped_reqs)

\* _find_mapped_requirements(test_case, requirements): the explicit
\* requirement_id when it is truthy, then the ids found by token overlap.
\* The join raises on a field that is not a string.
_find_mapped_requirements(test_case, requirements) ==
    IF ~joinable(test_case) THEN Raise
    ELSE Return(overlap_mapped(requirements, 1, TestTokenTable[test_case],
                               IF truthy(test_case.requirement_id)
                               THEN <<test_case.requirement_id>> ELSE <<>>))

\* the entry of matrix['requirements'] for a requirement
req_entry(req) ==
    [id |-> req.id, type |-> req.type, priority |-> req.priority,
     category |-> req.category, content |-> excerpt(req.content),
     covered |-> FALSE, test_case_count |-> 0]

\* The entry of matrix['test_cases'] for a test case; the test cases have
\* no key 'type', 'priority' or 'status' other than with the default values.
tc_entry(tc, mapped_req_ids) ==
    [id |-> IF tc.id.kind = "missing" THEN Str("Unknown") ELSE tc.id,
     title |-> IF tc.title.kind = "missing" THEN Str("Untitled") ELSE tc.title,
     type |-> "Functional", priority |-> "Medium", status |-> "Generated",
     requirement_mappings |-> mapped_req_ids]

\* Lines 62-66: the first entry of matrix['requirements'] with the id is
\* marked covered and its count raised; the loop breaks there.
mark_covered(entries, req_id) ==
    Bind({i \in 1..Len(entries) : Str(entries[i].id) = req_id}, LAMBDA same :
        IF same = {} THEN entries
        ELSE [entries EXCEPT ![SetMin(same)] =
                 [@ EXCEPT !.covered = TRUE, !.test_case_count = @ + 1]])

\* Lines 57-59: matrix['mappings'][req_id], a dict in insertion order, gets
\* tc.get('id') appended.
add_mapping(mappings, req_id, tc_id) ==
    Bind({k \in 1..Len(mappings) : mappings[k].requirement_id = req_id}, LAMBDA same :
        IF same = {}
        THEN Append(mappings, [requirement_id |-> req_id, test_cases |-> <<tc_id>>])
        ELSE [mappings EXCEPT ![SetMin(same)].test_cases = Append(@, tc_id)])

\* The loop over mapped_req_ids[k..] for one test case.
RECURSIVE update_coverage(_, _, _, _)
update_coverage(matrix, mapped_req_ids, k, tc_id) ==
    IF k > Len(mapped_req_ids) THEN matrix
    ELSE update_coverage(
             [matrix EXCEPT
                 !.mappings = add_mapping(@, mapped_req_ids[k], tc_id),
                 !.requirements = mark_covered(@, mapped_req_ids[k])],
             mapped_req_ids, k + 1, tc_id)

\* The loop of generate_matrix over test_cases[i..].  tc.get raises on an
\* entry that is not a dict, _find_mapped_requirements can raise, and a list
\* as req_id raises as a dict key.
RECURSIVE process_test_cases(_, _, _, _)
process_test_cases(matrix, requirements, tcs, i) ==
    IF i > Len(tcs) THEN Return(matrix)
    ELSE IF ~tcs[i].dict THEN Raise
    ELSE Bind(_find_mapped_requirements(tcs[i], requirements), LAMBDA mapped :
            IF mapped.raised THEN Raise
            ELSE IF \E k \in 1..Len(mapped.value) : mapped.value[k].kind = "list"
            THEN Raise
            ELSE process_test_cases(
                     [update_coverage(matrix, mapped.value, 1, get(tcs[i].id))
                         EXCEPT !.test_cases = Append(@, tc_entry(tcs[i], mapped.value))],
                     requirements, tcs, i + 1))

\* generate_matrix(requirements, test_cases), up to self.matrix_data = matrix
\* ('generation_date', the wall-clock time of the call, is left out).
\* req['id'] and req['content'] raise on a requirement without the key.
generate_matrix(requirements, tcs) ==
    IF \E i \in 1..Len(requirements) :
          requirements[i].id = NoKey \/ requirements[i].content = NoKey
    THEN Raise
    ELSE process_test_cases(
             [requirements |-> [i \in 1..Len(requirements) |-> req_entry(requirements[i])],
              test_cases |-> <<>>,
              mappings |-> <<>>,
              metadata |-> [total_requirements |-> Len(requirements),
                            total_test_cases |-> Len(tcs)]],
             requirements, tcs, 1)

\* round(x, 2): to the nearest hundredth, an exact tie to the even one
round2(x) ==
    Bind((x[1] * 100) \div x[2], LAMBDA q :
    Bind((x[1] * 100) % x[2], LAMBDA r :
        Frac(IF 2 * r < x[2] THEN q
             ELSE IF 2 * r > x[2] THEN q + 1
             ELSE IF q % 2 = 0 THEN q ELSE q + 1,
             100)))

\* A mutation of percentage: the quotient is not scaled to a percentage.
percentage_unscaled(covered, total) ==
    round2(IF total > 0 THEN Frac(covered, total) ELSE Zero)

\* round((covered / total * 100) if total > 0 else 0, 2)
percentage(covered, total) ==
    round2(IF total > 0 THEN Frac(covered * 100, total) ELSE Zero)

\* The counts of one value of a key ('type' or 'priority') among the
\* requirement entries.
coverage_of(selected) ==
    Bind(Cardinality({i \in DOMAIN selected : selected[i].covered}), LAMBDA covered :
        [total |-> Len(selected), covered |-> covered,
         percentage |-> percentage(covered, Len(selected))])

\* calculate_coverage_stats(matrix_data) for a matrix
coverage_stats(matrix) ==
    Bind(matrix.requirements, LAMBDA requirements :
    Bind(Cardinality({i \in 1..Len(requirements) : requirements[i].covered}),
         LAMBDA covered_reqs :
        [overall_coverage |->
            [total_requirements |-> Len(requirements),
             covered_requirements |-> covered_reqs,
             uncovered_requirements |-> Len(requirements) - covered_reqs,
             coverage_percentage |-> percentage(covered_reqs, Len(requirements))],
         coverage_by_type |->
            [t \in {requirements[i].type : i \in 1..Len(requirements)} |->
                coverage_of(SelectSeq(requirements, LAMBDA req : req.type = t))],
         coverage_by_priority |->
            [p \in {requirements[i].priority : i \in 1..Len(requirements)} |->
                coverage_of(SelectSeq(requirements, LAMBDA req : req.priority = p))],
         test_case_distribution |->
            [t \in {matrix.test_cases[i].type : i \in 1..Len(matrix.test_cases)} |->
                Cardinality({i \in 1..Len(matrix.test_cases) :
                                matrix.test_cases[i].type = t})],
         uncovered_requirements |->
            Slice([i \in 1..Len(SelectSeq(requirements, LAMBDA req : ~req.covered)) |->
                      [id |-> SelectSeq(requirements, LAMBDA req : ~req.covered)[i].id,
                       content |->
                          Slice(SelectSeq(requirements, LAMBDA req : ~req.covered)[i].content,
                                0, UncoveredExcerpt) \o "..."]],
                  0, MaxUncovered)]))

\* calculate_coverage_stats(matrix_data): {} for None, here the empty sequence
calculate_coverage_stats(cache) ==
    IF cache = NoMatrix THEN <<>> ELSE <<coverage_stats(cache[1])>>

\* a call of generate_matrix
GenerateMatrix(requirements, tcs) ==
    /\ ret' = [op |-> "generate_matrix", requirements |-> requirements,
               test_cases |-> tcs] @@ generate_matrix(requirements, tcs)
    /\ matrix_data' = IF ret'.raised THEN matrix_data ELSE <<ret'.value>>
    /\ UNCHANGED <<chunks, built, srs_requirements, test_cases>>

\* a call of calculate_coverage_stats on the cached matrix
CalculateCoverageStats ==
    /\ ret' = [op |-> "calculate_coverage_stats", raised |-> FALSE,
               value |-> calculate_coverage_stats(matrix_data)]
    /\ UNCHANGED <<chunks, built, srs_requirements, test_cases, matrix_data>>

-----------------------------------------------------------------------------
(* app.py: the handlers                                                    *)

MaxStoredTestCases == 2     \* longest test-case list the handlers build

\* The JSON documents uploaded as test-case files: one that is not an array,
\* one with an entry that is not an object, one with two objects, one whose
\* object has no id, one with the same object twice.
UploadedFiles ==
    { [is_list |-> FALSE, entries |-> <<>>],
      [is_list |-> TRUE, entries |-> <<NotADict, LinkedLock>>],
      [is_list |-> TRUE, entries |-> <<PlainLogin, LinkedLock>>],
      [is_list |-> TRUE, entries |-> <<ScenarioB>>],
      [is_list |-> TRUE, entries |-> <<PlainLogin, PlainLogin>>] }

\* A mutation of merged: entries that are not dicts are appended too.
RECURSIVE merged_unfiltered(_, _, _)
merged_unfiltered(stored, existing_ids, entries) ==
    IF entries = <<>> THEN stored
    ELSE merged_unfiltered(
             IF get(Head(entries).id) \notin existing_ids
             THEN Append(stored, Head(entries)) ELSE stored,
             existing_ids, Tail(entries))

\* The loop of upload_testcases: a dict whose id was not in the list before
\* the upload is appended, any other entry is skipped.  (The ids of the
\* uploaded files are strings or absent, so the membership test never
\* raises.)
RECURSIVE merged(_, _, _)
merged(stored, existing_ids, entries) ==
    IF entries = <<>> THEN stored
    ELSE IF ~Head(entries).dict THEN merged(stored, existing_ids, Tail(entries))
    ELSE merged(IF get(Head(entries).id) \notin existing_ids
                THEN Append(stored, Head(entries)) ELSE stored,
                existing_ids, Tail(entries))

\* upload_testcases for an uploaded JSON document: 400 unless it is an
\* array; existing_ids is computed once, before the loop.
UploadTestcases(file) ==
    IF ~file.is_list
    THEN /\ ret' = [op |-> "upload_testcases", entries |-> file.entries, status |-> 400]
         /\ UNCHANGED <<chunks, built, srs_requirements, test_cases, matrix_data>>
    ELSE /\ test_cases' =
              merged(test_cases,
                     {IF test_cases[i].dict THEN get(test_cases[i].id) ELSE None :
                         i \in 1..Len(test_cases)},
                     file.entries)
         /\ Len(test_cases') <= MaxStoredTestCases
         /\ ret' = [op |-> "upload_testcases", entries |-> file.entries, status |-> 200]
         /\ UNCHANGED <<chunks, built, srs_requirements, matrix_data>>

\* query for a request with the given 'query' at the wall-clock second now:
\* 400 for a blank query, 500 when search raises, otherwise one generated
\* test case per retrieved chunk is appended.
Query(query, now) ==
    IF strip(query) = ""
    THEN /\ ret' = [op |-> "query", query |-> query, status |-> 400]
         /\ UNCHANGED <<chunks, built, srs_requirements, test_cases, matrix_data>>
    ELSE IF search(strip(query), TopK).raised
    THEN /\ ret' = [op |-> "query", query |-> query, status |-> 500]
         /\ UNCHANGED <<chunks, built, srs_requirements, test_cases, matrix_data>>
    ELSE /\ test_cases' =
              test_cases \o
              [i \in 1..Len(search(strip(query), TopK).value) |->
                  generated_test_case(strip(query),
                                      search(strip(query), TopK).value[i], now, i)]
         /\ Len(test_cases') <= MaxStoredTestCases
         /\ ret' = [op |-> "query", query |-> query, status |-> 200]
         /\ UNCHANGED <<chunks, built, srs_requirements, matrix_data>>

\* validate_test_cases: _clean_test_cases rebinds the list to its dicts with
\* a truthy id (the validation results, which change no state, are left out).
Validate ==
    /\ test_cases' = SelectSeq(test_cases, LAMBDA tc : tc.dict /\ truthy(get(tc.id)))
    /\ ret' = [op |-> "validate", total |-> Len(test_cases')]
    /\ UNCHANGED <<chunks, built, srs_requirements, matrix_data>>

\* map_test_cases: the dicts of the list are mapped to the kept requirements
MapHandler == MapCall(TRUE, valid_test_cases(test_cases), srs_requirements)

\* A mutation of Traceability: the requirement list it was given is left in
\* the reverse order.
Traceability_reordering ==
    /\ ret' = [op |-> "traceability", requirements |-> srs_requirements,
               test_cases |-> valid_test_cases(test_cases)]
              @@ generate_matrix(srs_requirements, valid_test_cases(test_cases))
    /\ matrix_data' = IF ret'.raised THEN matrix_data ELSE <<ret'.value>>
    /\ srs_requirements' =
           [i \in 1..Len(srs_requirements) |->
               srs_requirements[Len(srs_requirements) + 1 - i]]
    /\ UNCHANGED <<chunks, built, test_cases>>

\* generate_traceability_matrix: the matrix of the dicts of the list, and
\* its statistics; raised stands for the answer 500.
Traceability ==
    /\ ret' = [op |-> "traceability", requirements |-> srs_requirements,
               test_cases |-> valid_test_cases(test_cases)]
              @@ generate_matrix(srs_requirements, valid_test_cases(test_cases))
    /\ matrix_data' = IF ret'.raised THEN matrix_data ELSE <<ret'.value>>
    /\ UNCHANGED <<chunks, built, srs_requirements, test_cases>>

\* export_excel, and export_pdf with the type 'traceability': the matrix of
\* the whole list (writing the file is left out).
ExportTraceability == GenerateMatrix(srs_requirements, test_cases)

\* upload for a document that gives these chunks: the requirements are
\* extracted anew, and the index is rebuilt when there are chunks.
Upload(text_chunks) ==
    /\ srs_requirements' = extracted(text_chunks)
    /\ chunks' = IF text_chunks # <<>> THEN text_chunks ELSE chunks
    /\ built' = (built \/ text_chunks # <<>>)
    /\ ret' = [op |-> "upload", text_chunks |-> text_chunks, status |-> 200]
    /\ UNCHANGED <<test_cases, matrix_data>>

-----------------------------------------------------------------------------
(* The index specification                                                 *)

Init ==
    /\ chunks = <<>>
    /\ built = FALSE
    /\ srs_requirements = <<>>
    /\ ret = [op |-> "none"]
    /\ test_cases = <<>>
    /\ matrix_data = NoMatrix

Next ==
    \/ \E text_chunks \in IndexChunkSeqs : build_index(text_chunks)
    \/ \E q \in QueryPool, k \in 0..MaxK : Search(q, k)
    \/ \E q \in QueryPool, k \in 0..MaxK : GetSimilarityScores(q, k)

Spec == Init /\ [][Next]_vars

-----------------------------------------------------------------------------
(* Claims about the lexical index                                          *)

\* The similarity the index assigns to the stored chunk at position p (1-based)
\* for the query of the last call.
SimTo(p) == JaccardSimilarity(words(ret.query_text), words(chunks[p]))

\* C1: in any sequence of build_index and search calls, build_index with an
\* empty sequence raises and leaves the stored chunk sequence unchanged, and
\* search raises exactly when no build_index call with a non-empty sequence
\* has succeeded before it.
C1_BuildAndSearchErrors ==
    [][ /\ (ret'.op = "build_index" /\ ret'.text_chunks = <<>>)
            => (ret'.raised /\ chunks' = chunks)
        /\ (ret'.op = "search") => (ret'.raised <=> ~built) ]_vars

\* An empty build_index call was rejected after an earlier one had succeeded.
C1_Witness ==
    ret.op = "build_index" /\ ret.raised /\ built /\ chunks # <<>>

\* C2: search(q, k), k >= 0, on a built index returns at most k chunk texts,
\* in non-increasing similarity to q, chunks of equal similarity in their
\* original chunk order: the result is read off the index at positions pos
\* that respect both orders.
C2_SearchOrdered ==
    (ret.op = "search" /\ ~ret.raised) =>
        /\ Len(ret.value) <= ret.top_k
        /\ \E pos \in [1..Len(ret.value) -> 1..Len(chunks)] :
              /\ \A i \in 1..Len(ret.value) : chunks[pos[i]] = ret.value[i]
              /\ \A i, j \in 1..Len(ret.value) :
                    i < j => \/ FracLess(SimTo(pos[j]), SimTo(pos[i]))
                             \/ SimTo(pos[j]) = SimTo(pos[i]) /\ pos[i] < pos[j]

\* A search returned two different chunks of equal, non-zero similarity.
C2_Witness ==
    /\ ret.op = "search" /\ ~ret.raised /\ Len(ret.value) >= 2
    /\ ret.value[1] # ret.value[2]
    /\ \E p \in 1..Len(chunks) : chunks[p] = ret.value[1] /\ SimTo(p) # Zero
    /\ JaccardSimilarity(words(ret.query_text), words(ret.value[1]))
         = JaccardSimilarity(words(ret.query_text), words(ret.value[2]))

\* C3: when every stored chunk has similarity 0 to the query, search(q, k)
\* returns exactly the first k chunks of the index in original order (all of
\* them when there are fewer than k).
C3_ZeroSimilarityFirstK ==
    (/\ ret.op = "search" /\ ~ret.raised
     /\ \A p \in 1..Len(chunks) : SimTo(p) = Zero)
        => ret.value = Slice(chunks, 0, ret.top_k)

\* C4: get_similarity_scores(q, k) never raises; it returns the empty sequence
\* when no chunks are stored, and otherwise exactly min(k, number of chunks)
\* records in non-increasing similarity order, each holding the stored chunk
\* at its index and that chunk's Jaccard similarity to q.
C4_SimilarityScores ==
    (ret.op = "get_similarity_scores") =>
        /\ ~ret.raised
        /\ (chunks = <<>>) => (ret.value = <<>>)
        /\ (chunks # <<>>) =>
              /\ Len(ret.value) = Min(ret.top_k, Len(chunks))
              /\ \A i \in 1..Len(ret.value) :
                    /\ ret.value[i].index \in 0..(Len(chunks) - 1)
                    /\ ret.value[i].chunk = chunks[ret.value[i].index + 1]
                    /\ ret.value[i].similarity = SimTo(ret.value[i].index + 1)
              /\ \A i, j \in 1..Len(ret.value) :
                    i < j => FracLeq(ret.value[j].similarity, ret.value[i].similarity)

\* Scores were returned with a later chunk ranked before an earlier one.
C4_Witness ==
    /\ ret.op = "get_similarity_scores" /\ Len(ret.value) >= 2
    /\ ret.value[1].index > ret.value[2].index
    /\ FracLess(ret.value[2].similarity, ret.value[1].similarity)

\* C5: the Jaccard similarity is symmetric, and is 1 for a non-empty word set
\* against itself: every score get_similarity_scores reports for (query, chunk)
\* equals the similarity of (chunk, query), and is 1 when the two word sets are
\* the same non-empty set.
C5_JaccardSymmetricReflexive ==
    (ret.op = "get_similarity_scores") =>
        \A i \in 1..Len(ret.value) :
            LET a == words(ret.query_text)
                b == words(ret.value[i].chunk)
            IN  /\ ret.value[i].similarity = JaccardSimilarity(b, a)
                /\ (a = b /\ a # {}) => ret.value[i].similarity = One

\* Scores were returned for a chunk with the query's own word set and for a
\* chunk that only partly overlaps the query.
C5_Witness ==
    /\ ret.op = "get_similarity_scores"
    /\ \E i, j \in 1..Len(ret.value) :
          /\ words(ret.value[i].chunk) = words(ret.query_text)
          /\ ret.value[i].similarity = One
          /\ FracLess(Zero, ret.value[j].similarity)
          /\ FracLess(ret.value[j].similarity, One)
          /\ Cardinality(words(ret.value[j].chunk)) # Cardinality(words(ret.query_text))

-----------------------------------------------------------------------------
(* The extraction specification                                            *)

NextExtract == \E text_chunks \in DocChunkSeqs : ExtractRequirements(text_chunks)

SpecExtract == Init /\ [][NextExtract]_vars

-----------------------------------------------------------------------------
(* Claims about requirement extraction                                     *)

\* C6: the records one extract_requirements call returns have pairwise
\* distinct ids, among records of the same chunk and of different chunks,
\* whether an id is TYPE_<number> or TYPE_<chunkIndex>_<localCounter>.
C6_IdsDistinct ==
    (ret.op = "extract_requirements") =>
        \A i, j \in 1..Len(ret.value) :
            i # j => ret.value[i].id # ret.value[j].id

\* C7: when a chunk occurs twice in the extracted sequence, no two returned
\* records have the same content and the later occurrence contributes no
\* record of its own.
C7_RepeatedChunkAddsNothing ==
    (ret.op = "extract_requirements") =>
        /\ \A i, j \in 1..Len(ret.value) :
              i # j => ret.value[i].content # ret.value[j].content
        /\ \A j \in 2..Len(ret.text_chunks) :
              (\E i \in 1..(j - 1) : ret.text_chunks[i] = ret.text_chunks[j])
                 => \A r \in 1..Len(ret.value) : ret.value[r].chunk_index # j - 1

\* C8 (Scenario A): extracting the login chunk and the password chunk returns
\* exactly 2 records, both functional, with distinct ids.
C8_ScenarioA ==
    (ret.op = "extract_requirements"
       /\ ret.text_chunks = <<ScenarioLogin, ScenarioPassword>>) =>
        /\ Len(ret.value) = 2
        /\ \A i \in 1..Len(ret.value) : ret.value[i].type = "functional"
        /\ ret.value[1].id # ret.value[2].id

\* Scenario A was extracted, one record per chunk.
C8_Witness ==
    /\ ret.op = "extract_requirements"
    /\ ret.text_chunks = <<ScenarioLogin, ScenarioPassword>>
    /\ Len(ret.value) = 2
    /\ ret.value[1].content = ScenarioLogin
    /\ ret.value[2].content = ScenarioPassword

C22_GenericOnlyWithoutMatch ==
    (ret.op = "extract_requirements") =>
        \A r \in 1..Len(ret.value) :
            ret.value[r].type = "general" =>
                facts(ret.text_chunks[ret.value[r].chunk_index + 1]).candidates = <<>>

\* The priority the keyword buckets give a lower-cased content, for a given
\* set of low keywords.
BucketPriority(content_lower, low_keywords) ==
    IF \E k \in {"critical", "essential", "must", "required", "mandatory", "shall"} :
          Contains(content_lower, k)
    THEN "high"
    ELSE IF \E k \in {"should", "important", "recommended"} : Contains(content_lower, k)
    THEN "medium"
    ELSE IF \E k \in low_keywords : Contains(content_lower, k)
    THEN "low"
    ELSE "medium"

\* C27 as stated: every pattern-extracted record has the priority of the
\* buckets high, medium, low {may, could, optional}, else medium; so a
\* content with no high keyword and none of may, could, optional is not low.
C27_PriorityBuckets ==
    (ret.op = "extract_requirements") =>
        \A r \in 1..Len(ret.value) :
            ret.value[r].type # "general" =>
                ret.value[r].priority =
                    BucketPriority(lower(ret.value[r].content),
                                   {"may", "could", "optional"})

\* C27, amended: the same with 'nice to have' as a fourth low keyword.
C27_PriorityBucketsWithNiceToHave ==
    (ret.op = "extract_requirements") =>
        \A r \in 1..Len(ret.value) :
            ret.value[r].type # "general" =>
                ret.value[r].priority =
                    BucketPriority(lower(ret.value[r].content),
                                   {"may", "could", "optional", "nice to have"})

\* The wishes were extracted: FR-3, whose only keyword is 'nice to have', is
\* low; FR-4, with 'should' and 'may', is medium.
C27_Witness ==
    /\ ret.op = "extract_requirements"
    /\ ret.text_chunks = <<ChunkWishes>>
    /\ Len(ret.value) = 2
    /\ ret.value[1].id = "FUNCTIONAL_3" /\ ret.value[1].priority = "low"
    /\ ~ContainsAny(lower(ret.value[1].content), {"may", "could", "optional"})
    /\ ret.value[2].id = "FUNCTIONAL_4" /\ ret.value[2].priority = "medium"
    /\ Contains(lower(ret.value[2].content), "may")

-----------------------------------------------------------------------------
(* The mapping specification                                               *)

NextMap ==
    \/ \E text_chunks \in MapChunkSeqs : build_index(text_chunks)
    \/ \E text_chunks \in MapChunkSeqs : ExtractRequirements(text_chunks)
    \/ \E tcs \in TestCaseSeqs : MapTestCases(tcs)
    \/ \E test_case \in TestCasePool, requirements \in HandWrittenRequirements :
          MapToHandWritten(<<test_case>>, requirements)
    \/ MapNotAList

SpecMap == Init /\ [][NextMap]_vars

-----------------------------------------------------------------------------
(* Claims about the mapper                                                 *)

\* the state Scenario B is mapped in, and the call
ScenarioBMapped ==
    /\ ret.op = "map_test_cases_to_requirements"
    /\ ret.test_cases = <<ScenarioB>>
    /\ chunks = <<ScenarioLogin, ScenarioPassword>>
    /\ srs_requirements = extracted(<<ScenarioLogin, ScenarioPassword>>)
    /\ ret.requirements = srs_requirements

\* C9 as stated: mapping the test case of Scenario B against the two
\* requirements of Scenario A, the index built from the same two chunks,
\* returns a non-empty match list whose first match is the login requirement,
\* with 0 < similarity <= 1.
C9_ScenarioBTopMatch ==
    ScenarioBMapped =>
        LET mapped == ret.value[1].mapped_requirements
        IN  /\ mapped # <<>>
            /\ \E i \in 1..Len(srs_requirements) :
                  /\ srs_requirements[i].content = ScenarioLogin
                  /\ mapped[1].requirement_id = srs_requirements[i].id
            /\ FracLess(Zero, mapped[1].similarity_score)
            /\ FracLeq(mapped[1].similarity_score, One)

\* C9 amended: mapping the test case of Scenario B against the two
\* requirements of Scenario A, the index built from the same two chunks,
\* returns one result with an empty match list and mapping_confidence 0.0;
\* the login chunk scores 3/16 against the composite text and the password
\* chunk 0, neither above the threshold 0.3.
C9_ScenarioBNoMatch ==
    ScenarioBMapped =>
        /\ Len(ret.value) = 1
        /\ ret.value[1].mapped_requirements = <<>>
        /\ ret.value[1].mapping_confidence = Zero
        /\ get_similarity_scores(content_of(ScenarioB), 2) =
              << [chunk |-> ScenarioLogin, similarity |-> Frac(3, 16), index |-> 0],
                 [chunk |-> ScenarioPassword, similarity |-> Zero, index |-> 1] >>
        /\ ~FracLess(threshold, Frac(3, 16))

C9_Witness ==
    /\ ScenarioBMapped
    /\ Len(srs_requirements) = 2
    /\ \E i \in 1..2 : srs_requirements[i].content = ScenarioLogin
    /\ Len(ret.value) = 1

\* C10: every mapping result that map_test_cases_to_requirements returns has
\* its mapping_confidence in [0, 1], and every match in it has its
\* similarity_score in [0, 1].
C10_ConfidenceAndScoresBounded ==
    ret.op = "map_test_cases_to_requirements" =>
        \A i \in 1..Len(ret.value) :
            /\ FracLeq(Zero, ret.value[i].mapping_confidence)
            /\ FracLeq(ret.value[i].mapping_confidence, One)
            /\ \A j \in 1..Len(ret.value[i].mapped_requirements) :
                  /\ FracLeq(Zero, ret.value[i].mapped_requirements[j].similarity_score)
                  /\ FracLeq(ret.value[i].mapped_requirements[j].similarity_score, One)

\* a test case linked to its only match, which scores more than 0.8, so that
\* the boost reaches the cap
C10_Witness ==
    /\ ret.op = "map_test_cases_to_requirements"
    /\ ret.test_cases = <<LinkedLogin>>
    /\ Len(ret.value) = 1
    /\ Len(ret.value[1].mapped_requirements) = 1
    /\ FracLess(Frac(4, 5), ret.value[1].mapped_requirements[1].similarity_score)
    /\ explicitly_linked(LinkedLogin, ret.value[1].mapped_requirements)
    /\ ret.value[1].mapping_confidence = One

\* The candidate matches _find_matching_requirements recorded for a test case
\* of the last call, before duplicates were removed.
CandidatesOf(test_case) ==
    IF ret.requirements = <<>> \/ content_of(test_case) = "" THEN <<>>
    ELSE matched_requirements_of(test_case, ret.requirements).value

\* C11: the match list of every MappingResult has at most 3 entries, with
\* pairwise distinct requirement ids, in non-increasing similarity; every
\* entry carries the greatest similarity among the candidates recorded for its
\* requirement id; and no candidate whose id was dropped scores more than a
\* kept entry.
C11_TopThreeDistinctByMax ==
    (ret.op = "map_test_cases_to_requirements" /\ ~ret.raised) =>
        \A r \in 1..Len(ret.value) :
            LET kept == ret.value[r].mapped_requirements
                candidates == CandidatesOf(valid_test_cases(ret.test_cases)[r])
            IN  /\ Len(kept) <= 3
                /\ \A i, j \in 1..Len(kept) :
                      i < j => /\ kept[i].requirement_id # kept[j].requirement_id
                               /\ FracLeq(kept[j].similarity_score,
                                          kept[i].similarity_score)
                /\ \A i \in 1..Len(kept) :
                      /\ \E c \in 1..Len(candidates) : candidates[c] = kept[i]
                      /\ \A c \in 1..Len(candidates) :
                            candidates[c].requirement_id = kept[i].requirement_id
                               => FracLeq(candidates[c].similarity_score,
                                          kept[i].similarity_score)
                /\ \A c \in 1..Len(candidates) :
                      (\A i \in 1..Len(kept) :
                          kept[i].requirement_id # candidates[c].requirement_id)
                         => \A i \in 1..Len(kept) :
                               FracLeq(candidates[c].similarity_score,
                                       kept[i].similarity_score)

\* Four requirements were candidates of one test case, with different scores,
\* and the one with the lowest score was dropped.
C11_Witness ==
    /\ ret.op = "map_test_cases_to_requirements" /\ ~ret.raised
    /\ Len(ret.value) = 1
    /\ LET kept == ret.value[1].mapped_requirements
           candidates == CandidatesOf(valid_test_cases(ret.test_cases)[1])
       IN  /\ Len(kept) = 3
           /\ Len(candidates) = 4
           /\ FracLess(kept[3].similarity_score, kept[1].similarity_score)
           /\ \E c \in 1..4 :
                 /\ \A i \in 1..3 :
                       kept[i].requirement_id # candidates[c].requirement_id
                 /\ FracLess(candidates[c].similarity_score, kept[3].similarity_score)

\* The path of _find_matching_requirements that produced the matches of a
\* test case of the last call: neither when the function returned before the
\* try block, the keyword fallback when the try block raised.
PathOf(test_case) ==
    IF ret.requirements = <<>> \/ content_of(test_case) = "" THEN "neither"
    ELSE IF primary_path(content_of(test_case), ret.requirements).raised
         THEN "keyword_fallback"
         ELSE "retrieval"

\* the value of 'mapping_method' in a result of the primary path
RetrievalTag == "semantic_similarity"

\* C12: every MappingResult is tagged with the path that produced its
\* matches: mapping_method is the retrieval tag when the primary path
\* completed, and another tag, that of the keyword fallback, when the primary
\* path raised and the fallback computed the matches.
C12_MethodTagsThePath ==
    (ret.op = "map_test_cases_to_requirements" /\ ~ret.raised) =>
        \A r \in 1..Len(ret.value) :
            LET path == PathOf(valid_test_cases(ret.test_cases)[r])
            IN  /\ path = "retrieval" => ret.value[r].mapping_method = RetrievalTag
                /\ path = "keyword_fallback"
                      => ret.value[r].mapping_method # RetrievalTag

\* C13: whenever the primary path raises for a test case of a call, the call
\* raises nothing and returns one MappingResult per dict entry, and the
\* matches of that test case are the first three, by score, of the
\* requirements whose content has a Jaccard similarity above 0.3 to the
\* composite text, whatever the index holds.
C13_FallbackAlwaysReturns ==
    (ret.op = "map_test_cases_to_requirements") =>
        \A r \in 1..Len(valid_test_cases(ret.test_cases)) :
            LET test_case == valid_test_cases(ret.test_cases)[r]
            IN  PathOf(test_case) = "keyword_fallback" =>
                  /\ ~ret.raised
                  /\ Len(ret.value) = Len(valid_test_cases(ret.test_cases))
                  /\ ret.value[r].mapped_requirements =
                        Slice(sort_by_score(unique_matches(
                                  keyword_matches(words(content_of(test_case)),
                                                  ret.requirements, 1), <<>>)),
                              0, 3)

\* every requirement of the last call has the keys 'id' and 'content'
WellFormedRequirements ==
    \A i \in 1..Len(ret.requirements) :
        ret.requirements[i].id # NoKey /\ ret.requirements[i].content # NoKey

\* C14 (Scenario D): for any test-case collection, mapped against well-formed
\* requirements, map_test_cases_to_requirements raises nothing and returns
\* exactly one MappingResult per dict entry, in input order, skipping every
\* other entry; for an argument that is not a list it returns the empty list.
C14_OneResultPerRecord ==
    (ret.op = "map_test_cases_to_requirements" /\ WellFormedRequirements) =>
        /\ ~ret.raised
        /\ ~ret.is_list => ret.value = <<>>
        /\ ret.is_list =>
              /\ Len(ret.value) =
                    Cardinality({i \in 1..Len(ret.test_cases) : ret.test_cases[i].dict})
              /\ \E pos \in [1..Len(ret.value) -> 1..Len(ret.test_cases)] :
                    /\ \A r \in 1..Len(ret.value) :
                          /\ ret.test_cases[pos[r]].dict
                          /\ ret.value[r].test_case_id = get(ret.test_cases[pos[r]].id)
                          /\ ret.value[r].test_case_title
                                = get(ret.test_cases[pos[r]].title)
                    /\ \A q, r \in 1..Len(ret.value) : q < r => pos[q] < pos[r]

\* Scenario D was mapped: two results for three entries, the dicts before
\* and after the entry that is not one.
C14_Witness ==
    /\ ret.op = "map_test_cases_to_requirements" /\ WellFormedRequirements
    /\ ret.test_cases = ScenarioD
    /\ srs_requirements # <<>> /\ chunks # <<>>
    /\ Len(ret.value) = 2
    /\ ret.value[1].test_case_id = LinkedLogin.id
    /\ ret.value[2].test_case_id = PlainLogin.id

\* C25: the mapping_confidence of every result is 0.0 without matches;
\* otherwise it is the greatest similarity, raised by 0.2 and capped at 1.0
\* when the test case's requirement_id is the id of a match, then scaled by
\* 0.8 when there are more than 2 matches, then rounded to 3 decimals (a
\* number of thousandths at most half a thousandth away).  So 3 matches
\* give at most 0.8, and an empty composite text gives no match and 0.0.
C25_ConfidenceInOrder ==
    (ret.op = "map_test_cases_to_requirements" /\ ~ret.raised) =>
        \A r \in 1..Len(ret.value) :
            LET test_case == valid_test_cases(ret.test_cases)[r]
                matches == ret.value[r].mapped_requirements
                confidence == ret.value[r].mapping_confidence
                best == CHOOSE s \in {matches[i].similarity_score :
                                         i \in 1..Len(matches)} :
                            \A i \in 1..Len(matches) :
                                FracLeq(matches[i].similarity_score, s)
                linked == \E i \in 1..Len(matches) :
                              Str(matches[i].requirement_id) = test_case.requirement_id
                boosted == IF ~linked THEN best
                           ELSE IF FracLess(One, FracAdd(best, Frac(1, 5))) THEN One
                           ELSE FracAdd(best, Frac(1, 5))
                scaled == IF Len(matches) > 2 THEN FracMul(boosted, Frac(4, 5))
                          ELSE boosted
                difference == confidence[1] * scaled[2] - scaled[1] * confidence[2]
            IN  /\ matches = <<>> => confidence = Zero
                /\ matches # <<>> =>
                      /\ 1000 % confidence[2] = 0
                      /\ 2000 * difference <= confidence[2] * scaled[2]
                      /\ -2000 * difference <= confidence[2] * scaled[2]
                /\ Len(matches) = 3 => FracLeq(confidence, Frac(4, 5))
                /\ content_of(test_case) = "" => matches = <<>> /\ confidence = Zero

\* A test case linked to one of its three matches: the boost came before
\* the penalty (the other order gives another number).
C25_Witness ==
    /\ ret.op = "map_test_cases_to_requirements" /\ ~ret.raised
    /\ Len(ret.value) = 1
    /\ Len(ret.value[1].mapped_requirements) = 3
    /\ \E i \in 1..3 : Str(ret.value[1].mapped_requirements[i].requirement_id)
                           = ret.test_cases[1].requirement_id
    /\ ret.value[1].mapping_confidence
          = round3(FracMul(FracAdd(ret.value[1].mapped_requirements[1].similarity_score,
                                   Frac(1, 5)),
                           Frac(4, 5)))
    /\ ret.value[1].mapping_confidence
          # round3(FracAdd(FracMul(ret.value[1].mapped_requirements[1].similarity_score,
                                   Frac(4, 5)),
                           Frac(1, 5)))

\* C26: in a call on well-formed requirements that takes the primary path,
\* for every chunk of the index whose similarity to the composite text of a
\* test case is above 0.3, every requirement whose content is inside the
\* chunk or holds the chunk is among the candidates recorded for the test
\* case, with the similarity of that chunk.
C26_EveryChunkAndRequirementExamined ==
    (ret.op = "map_test_cases_to_requirements" /\ ~ret.raised
       /\ WellFormedRequirements) =>
        \A r \in 1..Len(ret.value) :
            LET test_case == valid_test_cases(ret.test_cases)[r]
                candidates == CandidatesOf(test_case)
            IN  PathOf(test_case) = "retrieval" =>
                    \A c \in 1..Len(chunks), i \in 1..Len(ret.requirements) :
                        LET similarity == JaccardSimilarity(
                                              words(content_of(test_case)), words(chunks[c]))
                        IN  (/\ FracLess(threshold, similarity)
                             /\ \/ Contains(chunks[c], ret.requirements[i].content)
                                \/ Contains(ret.requirements[i].content, chunks[c]))
                                => \E k \in 1..Len(candidates) :
                                      /\ candidates[k].requirement_id
                                            = ret.requirements[i].id
                                      /\ candidates[k].similarity_score = similarity

-----------------------------------------------------------------------------
(* The matrix specification                                                *)

MaxMatrixTestCases == 2     \* longest list of well-typed test cases

\* Test cases whose four text fields are strings or absent: Scenario B, the
\* login chunk, and part of the lock chunk linked to FUNCTIONAL_1.
MatrixTestCasePool == {ScenarioB, PlainLogin, LinkedLock}

\* Test-case lists generate_matrix raises on: a field that is None, an entry
\* that is not a dict, a list as requirement_id.
RaisingTestCaseLists == { <<LinkedLogin>>, <<PlainLogin, NotADict>>, <<ListLinked>> }

MatrixTestCaseLists ==
    SeqsUpTo(MatrixTestCasePool, MaxMatrixTestCases) \cup RaisingTestCaseLists

\* The requirement lists: none, those of Scenario A, two with one id, and
\* those of three chunks.
MatrixRequirementLists ==
    { extracted(<<>>),
      extracted(<<ScenarioLogin, ScenarioPassword>>),
      extracted(<<ChunkLock, ChunkReport>>),
      extracted(<<ScenarioPassword, ScenarioLogin, ChunkLock>>) }

NextMatrix ==
    \/ \E requirements \in MatrixRequirementLists, tcs \in MatrixTestCaseLists :
          GenerateMatrix(requirements, tcs)
    \/ CalculateCoverageStats

SpecMatrix == Init /\ [][NextMatrix]_vars

-----------------------------------------------------------------------------
(* Claims about the traceability matrix                                    *)

\* C15: every requirement id in the match list of a MappingResult, in the
\* requirement_mappings of a test case of a matrix, or as a key of the
\* mappings of a matrix is the id of a requirement in the list passed to the
\* same call, also for a test case that carries an explicit requirement_id.
C15_ReferentialIntegrity ==
    /\ (ret.op = "map_test_cases_to_requirements" /\ ~ret.raised) =>
          \A r \in 1..Len(ret.value) :
              \A j \in 1..Len(ret.value[r].mapped_requirements) :
                  \E i \in 1..Len(ret.requirements) :
                      ret.requirements[i].id
                          = ret.value[r].mapped_requirements[j].requirement_id
    /\ (ret.op = "generate_matrix" /\ ~ret.raised) =>
          LET ids == {Str(ret.requirements[i].id) : i \in 1..Len(ret.requirements)}
          IN  /\ \A t \in 1..Len(ret.value.test_cases) :
                    \A k \in 1..Len(ret.value.test_cases[t].requirement_mappings) :
                        ret.value.test_cases[t].requirement_mappings[k] \in ids
              /\ \A k \in 1..Len(ret.value.mappings) :
                    ret.value.mappings[k].requirement_id \in ids

\* C16: in every matrix generate_matrix returns, a requirement entry is
\* marked covered exactly when the mappings hold a non-empty list of test
\* cases under its id.
C16_CoveredIffMapped ==
    (ret.op = "generate_matrix" /\ ~ret.raised) =>
        \A i \in 1..Len(ret.value.requirements) :
            ret.value.requirements[i].covered
               <=> \E k \in 1..Len(ret.value.mappings) :
                      /\ ret.value.mappings[k].requirement_id
                            = Str(ret.value.requirements[i].id)
                      /\ ret.value.mappings[k].test_cases # <<>>

\* C17: calculate_coverage_stats on a matrix raises nothing; when the
\* matrix has requirements, coverage_percentage is covered / total * 100
\* rounded to 2 decimals, that is a number of hundredths at most half a
\* hundredth away from it; for a matrix without requirements it is 0 and the
\* list of uncovered requirements is empty.
C17_CoveragePercentage ==
    (ret.op = "calculate_coverage_stats" /\ matrix_data # NoMatrix) =>
        /\ ~ret.raised
        /\ Len(ret.value) = 1
        /\ LET requirements == matrix_data[1].requirements
               total == Len(requirements)
               covered == Cardinality({i \in 1..total : requirements[i].covered})
               p == ret.value[1].overall_coverage.coverage_percentage
               difference == p[1] * total - 100 * covered * p[2]
           IN  /\ total > 0 =>
                     /\ 100 % p[2] = 0
                     /\ 200 * difference <= p[2] * total
                     /\ -200 * difference <= p[2] * total
               /\ total = 0 =>
                     /\ p = Zero
                     /\ ret.value[1].uncovered_requirements = <<>>

\* One requirement of three was covered: 33.33 per cent.
C17_Witness ==
    /\ ret.op = "calculate_coverage_stats" /\ matrix_data # NoMatrix
    /\ Len(matrix_data[1].requirements) = 3
    /\ ret.value[1].overall_coverage.covered_requirements = 1
    /\ ret.value[1].overall_coverage.coverage_percentage = Frac(3333, 100)
    /\ Len(ret.value[1].uncovered_requirements) = 2

\* The list a test case's requirement_mappings is claimed to be: the
\* explicit requirement_id when it is listed, then the id of every
\* requirement that shares enough words with the test case, in list order,
\* no id twice.
ClaimedMappings(test_case, requirements, explicit_listed, Shares(_)) ==
    LET listed(i) ==
            /\ Shares(i)
            /\ ~(explicit_listed /\ Str(requirements[i].id) = test_case.requirement_id)
            /\ \A j \in 1..(i - 1) :
                  ~(Shares(j) /\ requirements[j].id = requirements[i].id)
        selected == SelectSeq([i \in 1..Len(requirements) |-> i], listed)
    IN  (IF explicit_listed THEN <<test_case.requirement_id>> ELSE <<>>)
            \o [k \in 1..Len(selected) |-> Str(requirements[selected[k]].id)]

C24_CountsMatchMappings ==
    (ret.op = "generate_matrix" /\ ~ret.raised) =>
        /\ \A i \in 1..Len(ret.value.requirements) :
              LET under_id == {k \in 1..Len(ret.value.mappings) :
                                 ret.value.mappings[k].requirement_id
                                    = Str(ret.value.requirements[i].id)}
              IN  ret.value.requirements[i].test_case_count =
                     IF under_id = {} THEN 0
                     ELSE Len(ret.value.mappings[SetMin(under_id)].test_cases)
        /\ \A t \in 1..Len(ret.value.test_cases) :
              \A j, k \in 1..Len(ret.value.test_cases[t].requirement_mappings) :
                  j # k => ret.value.test_cases[t].requirement_mappings[j]
                              # ret.value.test_cases[t].requirement_mappings[k]

\* C21: map_test_cases_to_requirements and generate_matrix raise nothing
\* when every test case is a dict and the requirements come from
\* extract_requirements, whatever the title, description, steps and query
\* of the test cases are (a list, absent, None, a number).
C21_CoreCallsComplete ==
    (/\ ret.op \in {"map_test_cases_to_requirements", "generate_matrix"}
     /\ \A i \in 1..Len(ret.test_cases) : ret.test_cases[i].dict
     /\ \A i \in 1..Len(ret.requirements) :
            ret.requirements[i].id # NoKey /\ ret.requirements[i].content # NoKey)
        => ~ret.raised

-----------------------------------------------------------------------------
(* The application specification                                           *)

NextApp ==
    \/ \E text_chunks \in AppChunkSeqs : Upload(text_chunks)
    \/ \E file \in UploadedFiles : UploadTestcases(file)
    \/ \E query \in AppQueryPool, now \in TimePool : Query(query, now)
    \/ Validate
    \/ MapHandler
    \/ Traceability
    \/ ExportTraceability

SpecApp == Init /\ [][NextApp]_vars

\* C18: a cached matrix is never out of date: whenever matrix_data holds a
\* matrix, it is the matrix generate_matrix builds from the requirement list
\* and the test-case list the application holds now.
C18_CacheIsCurrent ==
    matrix_data # NoMatrix =>
        /\ ~generate_matrix(srs_requirements, test_cases).raised
        /\ matrix_data[1] = generate_matrix(srs_requirements, test_cases).value

\* C20: every element of the shared test-case list is a dict, and so is
\* every test case that the map, traceability and export handlers hand to
\* map_test_cases_to_requirements and generate_matrix.
C20_OnlyRecordsStored ==
    /\ \A i \in 1..Len(test_cases) : test_cases[i].dict
    /\ ret.op \in {"map_test_cases_to_requirements", "traceability", "generate_matrix"}
           => \A i \in 1..Len(ret.test_cases) : ret.test_cases[i].dict

\* A file with an entry that is not an object was uploaded: only its object
\* was stored.
C20_Witness ==
    /\ ret.op = "upload_testcases" /\ ret.status = 200
    /\ \E i \in 1..Len(ret.entries) : ~ret.entries[i].dict
    /\ test_cases = <<LinkedLock>>

\* C28: after extraction no core operation changes a requirement record:
\* a step of the map, traceability (generate_matrix and
\* calculate_coverage_stats), export or validate handler leaves the length
\* and the order of the requirement list and the id, type, content, priority
\* and category of every record as they were; and extraction leaves its
\* input unchanged: the index built after it from the same list holds the
\* uploaded chunk sequence.
C28_RequirementsUntouched ==
    [][/\ ret'.op \in {"map_test_cases_to_requirements", "traceability",
                       "generate_matrix", "validate"}
          => /\ Len(srs_requirements') = Len(srs_requirements)
             /\ \A i \in 1..Len(srs_requirements) :
                    /\ srs_requirements'[i].id = srs_requirements[i].id
                    /\ srs_requirements'[i].type = srs_requirements[i].type
                    /\ srs_requirements'[i].content = srs_requirements[i].content
                    /\ srs_requirements'[i].priority = srs_requirements[i].priority
                    /\ srs_requirements'[i].category = srs_requirements[i].category
       /\ (ret'.op = "upload" /\ ret'.text_chunks # <<>>)
          => chunks' = ret'.text_chunks]_vars

\* The traceability handler has built a matrix in which a requirement is
\* covered, from a list of two requirements that differ.
C28_Witness ==
    /\ ret.op = "traceability" /\ ~ret.raised
    /\ Len(srs_requirements) >= 2
    /\ srs_requirements[1] # srs_requirements[2]
    /\ \E i \in 1..Len(ret.value.requirements) :
           ret.value.requirements[i].covered

\* C29: after any sequence of upload_testcases and query operations no two
\* records of the shared test-case list have the same id.
C29_StoredIdsDistinct ==
    \A i, j \in 1..Len(test_cases) :
        (i < j /\ test_cases[i].dict /\ test_cases[j].dict)
            => get(test_cases[i].id) # get(test_cases[j].id)

\* C30: with uploads one at a time, after every completed upload the chunk
\* sequence of the lexical index, the document chunk list (the chunks of the
\* upload, text_chunks of its answer) and the chunk sequence the requirement
\* list was extracted from are the same sequence, also when the document
\* gives no chunks.
C30_UploadLeavesOneSequence ==
    (ret.op = "upload" /\ ret.status = 200)
        => /\ chunks = ret.text_chunks
           /\ srs_requirements = extracted(chunks)

=============================================================================
